---- MODULE Spec2Model ----
(***************************************************************************)
(* Type catalog and declaration parser of ossis (src/ossis/types.py).      *)
(*                                                                         *)
(* Text is modelled as a sequence of one-character strings, so that the    *)
(* regular expressions of _parse_type, the upper-casing of from_name and   *)
(* the rendering of __str__ are computed character by character.           *)
(* An optional attribute (Python None or a value) is the empty sequence    *)
(* or a one-element sequence.                                              *)
(***************************************************************************)
EXTENDS Integers, Sequences, FiniteSets, TLC

(***************************************************************************)
(* Optional values                                                         *)
(***************************************************************************)
None == <<>>

Some(x) == <<x>>

(***************************************************************************)
(* Characters and text                                                     *)
(***************************************************************************)
LowerLetters == <<"a", "b", "c", "d", "e", "f", "g", "h", "i", "j", "k", "l", "m", "n", "o", "p", "q", "r", "s", "t", "u", "v", "w", "x", "y", "z">>

UpperLetters == <<"A", "B", "C", "D", "E", "F", "G", "H", "I", "J", "K", "L", "M", "N", "O", "P", "Q", "R", "S", "T", "U", "V", "W", "X", "Y", "Z">>

Digits == <<"0", "1", "2", "3", "4", "5", "6", "7", "8", "9">>

Range(f) == {f[i] : i \in DOMAIN f}

\* str.upper() on every character that has an upper-case form
UpperMap == [c \in Range(LowerLetters) |-> UpperLetters[CHOOSE i \in DOMAIN LowerLetters : LowerLetters[i] = c]]

UpperChar(c) == IF c \in DOMAIN UpperMap THEN UpperMap[c] ELSE c

\* a text handed on in the case it was written in
UpperKeepingCase(s) == s

\* str.upper()
Upper(s) == [i \in DOMAIN s |-> UpperChar(s[i])]

\* regex class \d
DigitChars == Range(Digits)

IsDigit(c) == c \in DigitChars

\* regex class \s
SpaceChars == {" "}

IsSpace(c) == c \in SpaceChars

\* regex class [\w\s\[\]\(\)]
ElementChars ==
    Range(LowerLetters) \cup Range(UpperLetters) \cup DigitChars \cup {"_"}
        \cup SpaceChars \cup {"[", "]", "(", ")"}

IsElementChar(c) == c \in ElementChars

\* str.startswith(prefix)
StartsWith(s, prefix) ==
    /\ Len(s) >= Len(prefix)
    /\ SubSeq(s, 1, Len(prefix)) = prefix

\* the end (exclusive) of the longest run of digits of s that starts at index i
RECURSIVE DigitsEnd(_, _)
DigitsEnd(s, i) ==
    IF i <= Len(s) /\ IsDigit(s[i]) THEN DigitsEnd(s, i + 1) ELSE i

\* the end (exclusive) of the longest run of white space of s that starts at index i
RECURSIVE SpaceEnd(_, _)
SpaceEnd(s, i) ==
    IF i <= Len(s) /\ IsSpace(s[i]) THEN SpaceEnd(s, i + 1) ELSE i

\* the end (exclusive) of the longest run of element characters of s that starts at index i
RECURSIVE ElementEnd(_, _)
ElementEnd(s, i) ==
    IF i <= Len(s) /\ IsElementChar(s[i]) THEN ElementEnd(s, i + 1) ELSE i

DigitValues == [c \in DigitChars |-> (CHOOSE i \in DOMAIN Digits : Digits[i] = c) - 1]

DigitValue(c) == DigitValues[c]

\* int(text) for a text of decimal digits
RECURSIVE ToInt(_)
ToInt(s) ==
    IF Len(s) = 0 THEN 0
    ELSE 10 * ToInt(SubSeq(s, 1, Len(s) - 1)) + DigitValue(s[Len(s)])

\* str(n) for a non-negative integer
RECURSIVE IntToStr(_)
IntToStr(n) ==
    IF n < 10 THEN <<Digits[n + 1]>>
    ELSE IntToStr(n \div 10) \o <<Digits[(n % 10) + 1]>>

(***************************************************************************)
(* The names of the enum ossisTypes                                        *)
(***************************************************************************)
ARRAY == <<"A", "R", "R", "A", "Y">>

BLOB == <<"B", "L", "O", "B">>

BOOLEAN_ == <<"B", "O", "O", "L", "E", "A", "N">>

DATE == <<"D", "A", "T", "E">>

DECIMAL == <<"D", "E", "C", "I", "M", "A", "L">>

DOUBLE == <<"D", "O", "U", "B", "L", "E">>

FLOAT16 == <<"F", "L", "O", "A", "T", "1", "6">>

FLOAT32 == <<"F", "L", "O", "A", "T", "3", "2">>

FLOAT64 == <<"F", "L", "O", "A", "T", "6", "4">>

INTEGER == <<"I", "N", "T", "E", "G", "E", "R">>

INT8 == <<"I", "N", "T", "8">>

UINT8 == <<"U", "I", "N", "T", "8">>

INT16 == <<"I", "N", "T", "1", "6">>

UINT16 == <<"U", "I", "N", "T", "1", "6">>

INT32 == <<"I", "N", "T", "3", "2">>

UINT32 == <<"U", "I", "N", "T", "3", "2">>

INT64 == <<"I", "N", "T", "6", "4">>

UINT64 == <<"U", "I", "N", "T", "6", "4">>

INTERVAL == <<"I", "N", "T", "E", "R", "V", "A", "L">>

STRUCT == <<"S", "T", "R", "U", "C", "T">>

TIMESTAMP == <<"T", "I", "M", "E", "S", "T", "A", "M", "P">>

TIME == <<"T", "I", "M", "E">>

VARCHAR == <<"V", "A", "R", "C", "H", "A", "R">>

VARBINARY == <<"V", "A", "R", "B", "I", "N", "A", "R", "Y">>

NULL == <<"N", "U", "L", "L">>

JSONB == <<"J", "S", "O", "N", "B">>

_MISSING_TYPE == <<"_", "M", "I", "S", "S", "I", "N", "G", "_", "T", "Y", "P", "E">>

\* ossisTypes.__members__
__members__ ==
    { ARRAY, BLOB, BOOLEAN_, DATE, DECIMAL, DOUBLE, FLOAT16, FLOAT32, FLOAT64,
      INTEGER, INT8, UINT8, INT16, UINT16, INT32, UINT32, INT64, UINT64,
      INTERVAL, STRUCT, TIMESTAMP, TIME, VARCHAR, VARBINARY, NULL, JSONB,
      _MISSING_TYPE }

(***************************************************************************)
(* Text the parser compares against                                        *)
(***************************************************************************)
NUMERIC == <<"N", "U", "M", "E", "R", "I", "C">>

BSON == <<"B", "S", "O", "N">>

LIST == <<"L", "I", "S", "T">>

VARIANT == <<"V", "A", "R", "I", "A", "N", "T">>

MISSING == <<"M", "I", "S", "S", "I", "N", "G">>

INT == <<"I", "N", "T">>

UINT == <<"U", "I", "N", "T">>

FLOAT == <<"F", "L", "O", "A", "T">>

ZERO == <<"0">>

\* the deprecation and default notices passed to warn()
WARN_BLOB_TREATED_AS_VARBINARY == "BLOB is deprecated; treating as VARBINARY"

WARN_ARRAY_WITHOUT_ELEMENT == "ARRAY without element_type, defaulting to VARCHAR"

WARN_BLOB_USE_VARBINARY == "BLOB is deprecated; use VARBINARY instead"

WARN_DOUBLE_USE_FLOAT64 == "DOUBLE is deprecated; use FLOAT64 instead"

WARN_INTEGER_USE_INT64 == "INTEGER is deprecated; use INT64 instead"

(***************************************************************************)
(* _parse_type: the regular expressions, tried in the order of the code.   *)
(* re.match anchors at the start of the text only.                         *)
(* The result is a record: bare (a str was returned), base, the integer    *)
(* parameters, the element text and the notices warned.                    *)
(***************************************************************************)
NoMatch == [matched |-> FALSE, ints |-> <<>>, elem |-> <<>>]

\* re.match(r"ARRAY<([\w\s\[\]\(\)]+)>", type_str)
array_match(type_str) ==
    LET open == ARRAY \o <<"<">>
        from == Len(open) + 1
        to == ElementEnd(type_str, from)
    IN  IF /\ StartsWith(type_str, open)
           /\ to > from
           /\ to <= Len(type_str)
           /\ type_str[to] = ">"
        THEN [matched |-> TRUE, ints |-> <<>>, elem |-> SubSeq(type_str, from, to - 1)]
        ELSE NoMatch

\* re.match(r"DECIMAL\((\d+),\s*(\d+)\)", type_str)
decimal_match(type_str) ==
    LET open == DECIMAL \o <<"(">>
        p1 == Len(open) + 1
        p2 == DigitsEnd(type_str, p1)
        s1 == SpaceEnd(type_str, p2 + 1)
        s2 == DigitsEnd(type_str, s1)
    IN  IF /\ StartsWith(type_str, open)
           /\ p2 > p1
           /\ p2 <= Len(type_str)
           /\ type_str[p2] = ","
           /\ s2 > s1
           /\ s2 <= Len(type_str)
           /\ type_str[s2] = ")"
        THEN [matched |-> TRUE,
              ints |-> <<ToInt(SubSeq(type_str, p1, p2 - 1)), ToInt(SubSeq(type_str, s1, s2 - 1))>>,
              elem |-> <<>>]
        ELSE NoMatch

\* re.match(base + r"\[(\d+)\]", type_str) for VARCHAR, VARBINARY and BLOB
length_match(base, type_str) ==
    LET open == base \o <<"[">>
        from == Len(open) + 1
        to == DigitsEnd(type_str, from)
    IN  IF /\ StartsWith(type_str, open)
           /\ to > from
           /\ to <= Len(type_str)
           /\ type_str[to] = "]"
        THEN [matched |-> TRUE, ints |-> <<ToInt(SubSeq(type_str, from, to - 1))>>, elem |-> <<>>]
        ELSE NoMatch

varchar_match(type_str) == length_match(VARCHAR, type_str)

varbinary_match(type_str) == length_match(VARBINARY, type_str)

blob_match_absent(type_str) == NoMatch

blob_match(type_str) == length_match(BLOB, type_str)

_parse_type(type_str) ==
    IF array_match(type_str).matched
    THEN [bare |-> FALSE, base |-> ARRAY, ints |-> <<>>,
          elem |-> array_match(type_str).elem, warnings |-> <<>>]
    ELSE IF decimal_match(type_str).matched
    THEN [bare |-> FALSE, base |-> DECIMAL, ints |-> decimal_match(type_str).ints,
          elem |-> <<>>, warnings |-> <<>>]
    ELSE IF varchar_match(type_str).matched
    THEN [bare |-> FALSE, base |-> VARCHAR, ints |-> varchar_match(type_str).ints,
          elem |-> <<>>, warnings |-> <<>>]
    ELSE IF varbinary_match(type_str).matched
    THEN [bare |-> FALSE, base |-> VARBINARY, ints |-> varbinary_match(type_str).ints,
          elem |-> <<>>, warnings |-> <<>>]
    ELSE IF blob_match(type_str).matched
    THEN [bare |-> FALSE, base |-> VARBINARY, ints |-> blob_match(type_str).ints,
          elem |-> <<>>, warnings |-> <<WARN_BLOB_TREATED_AS_VARBINARY>>]
    ELSE [bare |-> TRUE, base |-> Upper(type_str), ints |-> <<>>,
          elem |-> <<>>, warnings |-> <<>>]

(***************************************************************************)
(* ossisTypes.from_name                                                    *)
(*                                                                         *)
(* An argument is a record: kind is "none" (None), "int" or "str", and     *)
(* text is str(argument).  The result is a record: raised and error tell   *)
(* the exception, type_kind tells whether _type is an enum member          *)
(* ("member"), the integer 0 ("int") or nothing ("none").                  *)
(***************************************************************************)
NoneArg == [kind |-> "none", text |-> <<"N", "o", "n", "e">>]

IntArg(n) == [kind |-> "int", text |-> IntToStr(n)]

StrArg(text) == [kind |-> "str", text |-> text]

\* the messages of the ValueError raised by from_name and get_ossis_type
ERR_DEPRECATED == "Column type is deprecated."

ERR_UNKNOWN_COLUMN_TYPE == "Unknown column type"

ERR_INVALID_ELEMENT == "Invalid element type for ARRAY type."

ERR_UNKNOWN_ELEMENT == "Unknown column type (element)"

ERR_INVALID_PRECISION == "Invalid precision for DECIMAL type."

ERR_INVALID_SCALE == "Invalid scale for DECIMAL type."

ERR_PRECISION_LT_SCALE == "Precision must be equal to or greater than scale for DECIMAL type."

ERR_EMPTY == "Type string cannot be empty"

ERR_UNKNOWN_TYPE == "Unknown type"

ERR_UNBOUND_LOCAL == "UnboundLocalError"

Raise(message, warnings) ==
    [raised |-> TRUE, error |-> message, type_kind |-> "none", type |-> <<>>,
     length |-> None, precision |-> None, scale |-> None, element_type |-> None,
     warnings |-> warnings]

Return(type_kind, type, length, precision, scale, element_type, warnings) ==
    [raised |-> FALSE, error |-> "", type_kind |-> type_kind, type |-> type,
     length |-> length, precision |-> precision, scale |-> scale,
     element_type |-> element_type, warnings |-> warnings]

RemovedTypesWithoutStruct == {NUMERIC, BSON, LIST}

\* the removed types
RemovedTypes == {NUMERIC, BSON, STRUCT, LIST}

\* the prefixes an ARRAY element must start with
ElementPrefixes == {INT, UINT, FLOAT, VARCHAR, VARBINARY, BOOLEAN_, DATE, TIMESTAMP, TIME}

decimal_error_unordered(_precision, _scale) ==
    IF _precision < 0 \/ _precision > 38 THEN ERR_INVALID_PRECISION
    ELSE IF _scale < 0 \/ _scale > 38 THEN ERR_INVALID_SCALE
    ELSE ""

\* the checks of the DECIMAL parameters: the message raised, or "" when they pass
decimal_error(_precision, _scale) ==
    IF _precision < 0 \/ _precision > 38 THEN ERR_INVALID_PRECISION
    ELSE IF _scale < 0 \/ _scale > 38 THEN ERR_INVALID_SCALE
    ELSE IF _precision < _scale THEN ERR_PRECISION_LT_SCALE
    ELSE ""

\* the branch of from_name for a bare name
from_bare_name(type_name, parsed_types, warnings) ==
    IF parsed_types = ARRAY
    THEN Return("member", ARRAY, None, None, None, Some(VARCHAR),
                warnings \o <<WARN_ARRAY_WITHOUT_ELEMENT>>)
    ELSE IF parsed_types \in RemovedTypes
    THEN Raise(ERR_DEPRECATED, warnings)
    ELSE IF parsed_types \in __members__
    THEN Return("member", parsed_types, None, None, None, None, warnings)
    ELSE IF parsed_types = VARBINARY
    THEN Return("member", VARBINARY, None, None, None, None, warnings)
    ELSE IF parsed_types = BLOB
    THEN Return("member", VARBINARY, None, None, None, None,
                warnings \o <<WARN_BLOB_USE_VARBINARY>>)
    ELSE IF parsed_types = DOUBLE
    THEN Return("member", FLOAT64, None, None, None, None,
                warnings \o <<WARN_DOUBLE_USE_FLOAT64>>)
    ELSE IF parsed_types = INTEGER
    THEN Return("member", INT64, None, None, None, None,
                warnings \o <<WARN_INTEGER_USE_INT64>>)
    ELSE IF type_name = ZERO \/ type_name = VARIANT \/ type_name = MISSING
    THEN Return("int", ZERO, None, None, None, None, warnings)
    ELSE Raise(ERR_UNKNOWN_COLUMN_TYPE, warnings)

\* the branch of from_name for ARRAY<ELEM>
from_array(_element_type, warnings) ==
    IF ~ \E prefix \in ElementPrefixes : StartsWith(_element_type, prefix)
    THEN Raise(ERR_INVALID_ELEMENT, warnings)
    ELSE IF _element_type \in __members__
    THEN Return("member", ARRAY, None, None, None, Some(_element_type), warnings)
    ELSE Raise(ERR_UNKNOWN_ELEMENT, warnings)

\* from_name after _parse_type: the dispatch on what _parse_type returned
from_parsed_type(type_name, parsed_types) ==
    IF parsed_types.bare
    THEN from_bare_name(type_name, parsed_types.base, parsed_types.warnings)
    ELSE IF parsed_types.base = ARRAY
    THEN from_array(parsed_types.elem, parsed_types.warnings)
    ELSE IF parsed_types.base = DECIMAL
    THEN IF decimal_error(parsed_types.ints[1], parsed_types.ints[2]) # ""
         THEN Raise(decimal_error(parsed_types.ints[1], parsed_types.ints[2]),
                    parsed_types.warnings)
         ELSE Return("member", DECIMAL, None, Some(parsed_types.ints[1]),
                     Some(parsed_types.ints[2]), None, parsed_types.warnings)
    ELSE IF parsed_types.base = VARCHAR
    THEN Return("member", VARCHAR, Some(parsed_types.ints[1]), None, None, None,
                parsed_types.warnings)
    ELSE IF parsed_types.base = VARBINARY
    THEN Return("member", VARBINARY, Some(parsed_types.ints[1]), None, None, None,
                parsed_types.warnings)
    ELSE IF parsed_types.base = BLOB
    THEN Return("member", VARBINARY, Some(parsed_types.ints[1]), None, None, None,
                parsed_types.warnings \o <<WARN_BLOB_USE_VARBINARY>>)
    ELSE Raise(ERR_UNBOUND_LOCAL, parsed_types.warnings)

from_name(name) ==
    IF name.kind = "none"
    THEN Return("member", _MISSING_TYPE, None, None, None, None, <<>>)
    ELSE from_parsed_type(Upper(name.text), _parse_type(Upper(name.text)))

(***************************************************************************)
(* The declarations handed to the parser                                   *)
(***************************************************************************)
\* str.lower(), used to write declarations in lower case
LowerMap == [c \in Range(UpperLetters) |-> LowerLetters[CHOOSE i \in DOMAIN UpperLetters : UpperLetters[i] = c]]

LowerChar(c) == IF c \in DOMAIN LowerMap THEN LowerMap[c] ELSE c

Lower(s) == [i \in DOMAIN s |-> LowerChar(s[i])]

DecimalDecl(p, s) == DECIMAL \o <<"(">> \o IntToStr(p) \o <<",">> \o IntToStr(s) \o <<")">>

SizedDecl(base, n) == base \o <<"[">> \o IntToStr(n) \o <<"]">>

ArrayDecl(elem) == ARRAY \o <<"<">> \o elem \o <<">">>

BIT == <<"B", "I", "T">>

\* the largest precision and scale of a DECIMAL
MAX_PRECISION == 38

SmallParam == 2

MidParam == 10

SmallLength == 12

LargeLength == 255

\* LIST in mixed case
MixedCaseList == <<"L", "i", "s", "T">>

\* the declarations of the stateful specification: the calls that attach
\* attributes to the enum members, and calls that fail
CatalogDecls ==
    { VARCHAR, DECIMAL, VARBINARY, ARRAY, INTEGER, DOUBLE, BLOB,
      STRUCT, NUMERIC, LIST, BSON, Lower(NUMERIC), Lower(STRUCT), MixedCaseList,
      BIT, MISSING, <<>>,
      DecimalDecl(MidParam, SmallParam), DecimalDecl(MAX_PRECISION, MidParam),
      DecimalDecl(MidParam, MAX_PRECISION),
      DecimalDecl(MAX_PRECISION + 1, SmallParam), DecimalDecl(MidParam, MAX_PRECISION + 1),
      SizedDecl(VARCHAR, SmallLength), SizedDecl(VARCHAR, LargeLength),
      SizedDecl(VARBINARY, SmallLength), SizedDecl(BLOB, SmallLength),
      ArrayDecl(INTEGER), ArrayDecl(VARCHAR), ArrayDecl(VARBINARY), ArrayDecl(BLOB),
      ArrayDecl(INT) }

CatalogArgs == {StrArg(d) : d \in CatalogDecls} \cup {NoneArg, IntArg(0)}

\* the enum members a client refers to directly
CatalogMembers == {VARCHAR, DECIMAL, VARBINARY, ARRAY, INTEGER, BLOB}

\* the declarations of the parser specification
DecimalParams == {0, SmallParam, MidParam, MAX_PRECISION, MAX_PRECISION + 1}

Lengths == {0, SmallLength, LargeLength}

SizedBases == {VARCHAR, VARBINARY, BLOB}

BareNames ==
    __members__ \cup
    { NUMERIC, LIST, BSON, BIT, Lower(NUMERIC), Lower(STRUCT), Lower(LIST), Lower(BSON),
      Lower(DOUBLE), Lower(INTEGER), VARIANT, MISSING, ZERO, <<>> }

Elements ==
    __members__ \cup {BIT, INT, SizedDecl(VARCHAR, SmallLength), ArrayDecl(INTEGER), Lower(INTEGER)}

DecimalDecls == {DecimalDecl(p, s) : p \in DecimalParams, s \in DecimalParams}

SizedDecls == {SizedDecl(base, n) : base \in SizedBases, n \in Lengths}

ArrayDecls == {ArrayDecl(elem) : elem \in Elements}

\* every second character in lower case, as in InTeGeR and ArRaY<InTeGeR>
MixedCase(s) == [i \in DOMAIN s |-> IF i % 2 = 0 THEN LowerChar(s[i]) ELSE s[i]]

\* the upper-case declarations of the four forms whose lower-case and
\* mixed-case spellings are parsed
CaseDecls ==
    __members__ \cup {NUMERIC, LIST, BSON, BIT, VARIANT, MISSING}
                \cup DecimalDecls \cup SizedDecls
                \cup {ArrayDecl(elem) : elem \in __members__ \cup {BIT, INT}}

CaseVariants == {Lower(d) : d \in CaseDecls} \cup {MixedCase(d) : d \in CaseDecls}

\* one valid declaration of each parameterized form
ValidForms ==
    { DecimalDecl(MidParam, SmallParam), SizedDecl(VARCHAR, SmallLength),
      SizedDecl(VARBINARY, SmallLength), SizedDecl(BLOB, SmallLength), ArrayDecl(INTEGER) }

\* characters written after a declaration
Extras == {<<"x">>, <<" ">>, <<">">>, <<"]">>, <<"(", "1", ")">>, <<",", "2">>}

\* a valid declaration followed by extra characters, and preceded by one
TrailingDecls == {d \o e : d \in ValidForms, e \in Extras}

LeadingDecls == {<<"x">> \o d : d \in ValidForms}

ParserDecls ==
    BareNames \cup DecimalDecls \cup SizedDecls \cup {Lower(d) : d \in SizedDecls}
              \cup ArrayDecls \cup CaseVariants \cup TrailingDecls \cup LeadingDecls

ParserArgs == {StrArg(d) : d \in ParserDecls} \cup {NoneArg, IntArg(0)}

\* from_name is a pure function of its argument: its results on the
\* declarations above are computed once, and on any other text when asked
from_name_table == [name \in CatalogArgs \cup ParserArgs |-> from_name(name)]

from_name_of(name) ==
    IF name \in DOMAIN from_name_table THEN from_name_table[name] ELSE from_name(name)

(***************************************************************************)
(* The attributes attached to the enum members                             *)
(***************************************************************************)
\* ossisTypes.__init__: every attribute of a member starts as None
Unset == [length |-> None, precision |-> None, scale |-> None, element_type |-> None]

Attributes(result) ==
    [length |-> result.length, precision |-> result.precision,
     scale |-> result.scale, element_type |-> result.element_type]

\* attach_metadata that starts every member afresh when the call fails
attach_metadata_resetting(found, attrs) ==
    IF found.raised
    THEN [result |-> found, attrs |-> [t \in DOMAIN attrs |-> Unset]]
    ELSE IF found.type_kind = "int"
    THEN [result |-> Raise(ERR_UNKNOWN_TYPE, found.warnings),
          attrs |-> [t \in DOMAIN attrs |-> Unset]]
    ELSE [result |-> found,
          attrs |-> [attrs EXCEPT ![found.type] = Attributes(found)]]

\* get_ossis_type after from_name: the sentinel is refused, and the attributes
\* from_name found are set on the enum member it returned
attach_metadata(found, attrs) ==
    IF found.raised
    THEN [result |-> found, attrs |-> attrs]
    ELSE IF found.type_kind = "int"
    THEN [result |-> Raise(ERR_UNKNOWN_TYPE, found.warnings), attrs |-> attrs]
    ELSE [result |-> found,
          attrs |-> [attrs EXCEPT ![found.type] = Attributes(found)]]

\* get_ossis_type: the value returned or the error raised, with the attributes
\* of the members after the call (attrs is their state before it)
get_ossis_type(type_str, attrs) ==
    IF \/ type_str.kind = "none"
       \/ type_str.kind = "int" /\ type_str.text = ZERO
       \/ type_str.kind = "str" /\ type_str.text = <<>>
    THEN [result |-> Raise(ERR_EMPTY, <<>>), attrs |-> attrs]
    ELSE attach_metadata(from_name_of(type_str), attrs)

\* Enum value of a member: its name, and "0" for _MISSING_TYPE
value(self) == IF self = _MISSING_TYPE THEN ZERO ELSE self

\* ossisTypes.__str__, which reads the attributes attached to the member
RECURSIVE __str__(_, _)
__str__(self, attrs) ==
    IF value(self) = ARRAY /\ attrs[self].element_type # None
    THEN ARRAY \o <<"<">> \o __str__(attrs[self].element_type[1], attrs) \o <<">">>
    ELSE IF value(self) = DECIMAL /\ attrs[self].precision # None /\ attrs[self].scale # None
    THEN DECIMAL \o <<"(">> \o IntToStr(attrs[self].precision[1]) \o <<",", " ">>
                 \o IntToStr(attrs[self].scale[1]) \o <<")">>
    ELSE IF value(self) = VARCHAR /\ attrs[self].length # None
    THEN VARCHAR \o <<"[">> \o IntToStr(attrs[self].length[1]) \o <<"]">>
    ELSE IF value(self) \in {BLOB, VARBINARY} /\ attrs[self].length # None
    THEN VARBINARY \o <<"[">> \o IntToStr(attrs[self].length[1]) \o <<"]">>
    ELSE value(self)

\* ossisTypes.parse: the keyword arguments handed to the caster when the
\* caller passes none
parse_kwargs(self, attrs) ==
    [length |-> attrs[self].length, precision |-> attrs[self].precision,
     scale |-> attrs[self].scale, element_type |-> attrs[self].element_type]

(***************************************************************************)
(* The state machine: the calls a client makes on the type catalog         *)
(***************************************************************************)
\* meta: the attributes attached to each enum member
\* last: the last call, with its operation, argument and outcome
VARIABLES meta, last

vars == <<meta, last>>

NoResult == Return("none", <<>>, None, None, None, None, <<>>)

Call(op, arg, result, text, again) ==
    [op |-> op, arg |-> arg, result |-> result, text |-> text, again |-> again]

Init ==
    /\ meta = [t \in __members__ |-> Unset]
    /\ last = Call("none", NoneArg, NoResult, <<>>, NoResult)

\* get_ossis_type(arg)
GetOssisType(arg) ==
    LET call == get_ossis_type(arg, meta)
    IN  /\ meta' = call.attrs
        /\ last' = Call("get_ossis_type", arg, call.result, <<>>, NoResult)

\* ossisTypes.from_name(arg)
FromName(arg) ==
    /\ last' = Call("from_name", arg, from_name_of(arg), <<>>, NoResult)
    /\ UNCHANGED meta

\* a direct reference to an enum member, ossisTypes.<name>, and a read of its
\* attributes
Member(name) ==
    /\ last' = Call("member", StrArg(name),
                    Return("member", name, meta[name].length, meta[name].precision,
                           meta[name].scale, meta[name].element_type, <<>>),
                    <<>>, NoResult)
    /\ UNCHANGED meta

\* t = get_ossis_type(arg); text = str(t); get_ossis_type(text)
RoundTrip(arg) ==
    LET first == get_ossis_type(arg, meta)
        text == __str__(first.result.type, first.attrs)
        second == get_ossis_type(StrArg(text), first.attrs)
    IN  /\ ~ first.result.raised
        /\ meta' = second.attrs
        /\ last' = Call("round_trip", arg, first.result, text, second.result)

Next ==
    \/ \E arg \in CatalogArgs : GetOssisType(arg)
    \/ \E arg \in CatalogArgs : FromName(arg)
    \/ \E name \in CatalogMembers : Member(name)
    \/ \E arg \in CatalogArgs : RoundTrip(arg)

Spec == Init /\ [][Next]_vars

\* the parser alone: from_name applied to every declaration of ParserDecls
NextParser == \E arg \in ParserArgs : FromName(arg)

SpecParser == Init /\ [][NextParser]_vars

(***************************************************************************)
(* Casters: the values handed to ossisTypes.parse and its outcomes         *)
(***************************************************************************)
\* a Python value is its type and its str() form; integers are unbounded, so
\* an integer is kept as its decimal text
BytesArg(text) == [kind |-> "bytes", text |-> text]

FloatArg(text) == [kind |-> "float", text |-> text]

BoolArg(text) == [kind |-> "bool", text |-> text]

BigIntArg(text) == [kind |-> "int", text |-> text]

\* the outcome of a caster: an exception, or a value with its type, its text
\* and its numeric fields
NoValue == [kind |-> "none", text |-> <<>>, num |-> <<>>]

CastRaise(error) == [raised |-> TRUE, error |-> error, value |-> NoValue]

CastReturn(kind, text, num) ==
    [raised |-> FALSE, error |-> "", value |-> [kind |-> kind, text |-> text, num |-> num]]

\* the index of the last character of s that is no white space, 0 if none
LastNonSpace(s) ==
    IF \A i \in DOMAIN s : IsSpace(s[i]) THEN 0
    ELSE CHOOSE i \in DOMAIN s : ~ IsSpace(s[i]) /\ \A j \in (i + 1)..Len(s) : IsSpace(s[j])

\* str.strip()
strip(s) == SubSeq(s, SpaceEnd(s, 1), LastNonSpace(s))

(***************************************************************************)
(* Python integers in text form                                            *)
(***************************************************************************)
IsNegative(a) == Len(a) > 0 /\ a[1] = "-"

Magnitude(a) == IF IsNegative(a) THEN Tail(a) ELSE a

\* a < b for two magnitudes without leading zeros
MagnitudeLess(a, b) ==
    \/ Len(a) < Len(b)
    \/ /\ Len(a) = Len(b)
       /\ \E i \in DOMAIN a :
            /\ DigitValue(a[i]) < DigitValue(b[i])
            /\ \A j \in 1..(i - 1) : a[j] = b[j]

\* int.__lt__
int_lt(a, b) ==
    IF IsNegative(a)
    THEN IF IsNegative(b) THEN MagnitudeLess(Magnitude(b), Magnitude(a)) ELSE TRUE
    ELSE IF IsNegative(b) THEN FALSE ELSE MagnitudeLess(a, b)

\* a run of digits without its leading zeros
RECURSIVE Canonical(_)
Canonical(digits) ==
    IF Len(digits) > 1 /\ digits[1] = "0" THEN Canonical(Tail(digits)) ELSE digits

\* the integer of a sign and a run of digits
Signed(negative, digits) ==
    IF negative /\ Canonical(digits) # <<"0">> THEN <<"-">> \o Canonical(digits)
    ELSE Canonical(digits)

\* -a
Neg(a) == Signed(~ IsNegative(a), Magnitude(a))

\* the digits of s all but the last
Front(s) == SubSeq(s, 1, Len(s) - 1)

\* a + 1 for a magnitude a
RECURSIVE Succ(_)
Succ(s) ==
    IF Len(s) = 0 THEN <<"1">>
    ELSE IF s[Len(s)] = "9" THEN Succ(Front(s)) \o <<"0">>
    ELSE Front(s) \o <<Digits[DigitValue(s[Len(s)]) + 2]>>

\* a - 1 for a magnitude a >= 1
RECURSIVE Pred(_)
Pred(s) ==
    IF s[Len(s)] = "0" THEN Canonical(Pred(Front(s)) \o <<"9">>)
    ELSE Canonical(Front(s) \o <<Digits[DigitValue(s[Len(s)])]>>)

\* 2 * a for a magnitude a: a digit carries into the next when it is 5 or more
Double(s) ==
    (IF DigitValue(s[1]) >= 5 THEN <<"1">> ELSE <<>>)
    \o [i \in DOMAIN s |->
            Digits[((2 * DigitValue(s[i])
                     + (IF i < Len(s) /\ DigitValue(s[i + 1]) >= 5 THEN 1 ELSE 0)) % 10) + 1]]

\* s * 2^k
RECURSIVE TimesPow2(_, _)
TimesPow2(s, k) == IF k = 0 THEN s ELSE Double(TimesPow2(s, k - 1))

\* the powers of two at the widths of the fixed-width integers, each computed
\* from the one before
Pow2_7 == TimesPow2(<<"1">>, 7)

Pow2_8 == Double(Pow2_7)

Pow2_15 == TimesPow2(Pow2_8, 7)

Pow2_16 == Double(Pow2_15)

Pow2_31 == TimesPow2(Pow2_16, 15)

Pow2_32 == Double(Pow2_31)

Pow2_63 == TimesPow2(Pow2_32, 31)

Pow2_64 == Double(Pow2_63)

ERR_INVALID_LITERAL == "invalid literal for int()"

ERR_INT_OF_NONE == "int() argument must be a string, a bytes-like object or a real number"

ERR_INT_OF_INFINITY == "cannot convert float infinity to integer"

ERR_INT_OF_NAN == "cannot convert float NaN to integer"

INF == <<"i", "n", "f">>

NAN == <<"n", "a", "n">>

TRUE_REPR == <<"T", "r", "u", "e">>

\* the digits of an integer literal: digits, single underscores between them
IsIntDigits(s) ==
    /\ Len(s) > 0
    /\ IsDigit(s[1])
    /\ IsDigit(s[Len(s)])
    /\ \A i \in DOMAIN s : IsDigit(s[i]) \/ (s[i] = "_" /\ IsDigit(s[i + 1]))

\* int(text) for a stripped text or bytes: an optional sign and digits
int_of_text(s) ==
    IF Len(s) > 0 /\ s[1] \in {"+", "-"}
    THEN IF IsIntDigits(Tail(s))
         THEN CastReturn("int", Signed(s[1] = "-", SelectSeq(Tail(s), IsDigit)), <<>>)
         ELSE CastRaise(ERR_INVALID_LITERAL)
    ELSE IF IsIntDigits(s)
         THEN CastReturn("int", Signed(FALSE, SelectSeq(s, IsDigit)), <<>>)
         ELSE CastRaise(ERR_INVALID_LITERAL)

\* the index of the first "." of s, 0 if none
PointIndex(s) ==
    IF \A i \in DOMAIN s : s[i] # "." THEN 0
    ELSE CHOOSE i \in DOMAIN s : s[i] = "." /\ \A j \in 1..(i - 1) : s[j] # "."

\* int(float): the float in positional notation, truncated towards zero
int_of_float(s) ==
    IF Magnitude(s) = INF THEN CastRaise(ERR_INT_OF_INFINITY)
    ELSE IF s = NAN THEN CastRaise(ERR_INT_OF_NAN)
    ELSE CastReturn("int", Signed(IsNegative(s), SubSeq(Magnitude(s), 1, PointIndex(Magnitude(s)) - 1)), <<>>)

\* int(x)
int(x) ==
    CASE x.kind = "int" -> CastReturn("int", x.text, <<>>)
      [] x.kind = "bool" -> CastReturn("int", IF x.text = TRUE_REPR THEN <<"1">> ELSE <<"0">>, <<>>)
      [] x.kind \in {"str", "bytes"} -> int_of_text(strip(x.text))
      [] x.kind = "float" -> int_of_float(x.text)
      [] OTHER -> CastRaise(ERR_INT_OF_NONE)

INT8_MIN == <<"-", "1", "2", "8">>

INT8_MAX == <<"1", "2", "7">>

ERR_INT8_RANGE == "INT8 value out of range"

UINT8_MIN == <<"0">>

UINT8_MAX == <<"2", "5", "5">>

ERR_UINT8_RANGE == "UINT8 value out of range"

INT16_MIN == <<"-", "3", "2", "7", "6", "8">>

INT16_MAX == <<"3", "2", "7", "6", "7">>

ERR_INT16_RANGE == "INT16 value out of range"

UINT16_MIN == <<"0">>

UINT16_MAX == <<"6", "5", "5", "3", "5">>

ERR_UINT16_RANGE == "UINT16 value out of range"

INT32_MIN == <<"-", "2", "1", "4", "7", "4", "8", "3", "6", "4", "8">>

INT32_MAX == <<"2", "1", "4", "7", "4", "8", "3", "6", "4", "7">>

ERR_INT32_RANGE == "INT32 value out of range"

UINT32_MIN == <<"0">>

UINT32_MAX == <<"4", "2", "9", "4", "9", "6", "7", "2", "9", "5">>

ERR_UINT32_RANGE == "UINT32 value out of range"

INT64_MIN == <<"-", "9", "2", "2", "3", "3", "7", "2", "0", "3", "6", "8", "5", "4", "7", "7", "5", "8", "0", "8">>

INT64_MAX == <<"9", "2", "2", "3", "3", "7", "2", "0", "3", "6", "8", "5", "4", "7", "7", "5", "8", "0", "7">>

ERR_INT64_RANGE == "INT64 value out of range"

UINT64_MIN == <<"0">>

UINT64_MAX == <<"1", "8", "4", "4", "6", "7", "4", "4", "0", "7", "3", "7", "0", "9", "5", "5", "1", "6", "1", "5">>

ERR_UINT64_RANGE == "UINT64 value out of range"

\* the range test of a fixed-width caster that lets the upper bound out
range_check_exclusive(val, lowest, highest, error) ==
    IF val.raised THEN val
    ELSE IF int_lt(val.value.text, lowest) \/ ~ int_lt(val.value.text, highest)
    THEN CastRaise(error)
    ELSE val

\* val = int(x); if val < lowest or val > highest: raise ValueError; return val
range_check(val, lowest, highest, error) ==
    IF val.raised THEN val
    ELSE IF int_lt(val.value.text, lowest) \/ int_lt(highest, val.value.text)
    THEN CastRaise(error)
    ELSE val

parse_int8(x) == range_check(int(x), INT8_MIN, INT8_MAX, ERR_INT8_RANGE)

parse_uint8(x) == range_check(int(x), UINT8_MIN, UINT8_MAX, ERR_UINT8_RANGE)

parse_int16(x) == range_check(int(x), INT16_MIN, INT16_MAX, ERR_INT16_RANGE)

parse_uint16(x) == range_check(int(x), UINT16_MIN, UINT16_MAX, ERR_UINT16_RANGE)

parse_int32(x) == range_check(int(x), INT32_MIN, INT32_MAX, ERR_INT32_RANGE)

parse_uint32(x) == range_check(int(x), UINT32_MIN, UINT32_MAX, ERR_UINT32_RANGE)

parse_int64(x) == range_check(int(x), INT64_MIN, INT64_MAX, ERR_INT64_RANGE)

parse_uint64(x) == range_check(int(x), UINT64_MIN, UINT64_MAX, ERR_UINT64_RANGE)

(***************************************************************************)
(* The boolean caster                                                      *)
(***************************************************************************)
FALSE_REPR == <<"F", "a", "l", "s", "e">>

\* the texts of BOOLEAN_STRINGS
BooleanTexts ==
    { <<"T", "R", "U", "E">>, <<"O", "N">>, <<"Y", "E", "S">>, <<"1">>,
      <<"1", ".", "0">>, <<"T">>, <<"Y">> }

\* the texts alone, without their bytes forms
BOOLEAN_STRINGS_as_text == {StrArg(text) : text \in BooleanTexts}

\* BOOLEAN_STRINGS: every text, as str and as bytes
BOOLEAN_STRINGS ==
    {StrArg(text) : text \in BooleanTexts} \cup {BytesArg(text) : text \in BooleanTexts}

\* x if isinstance(x, (bytes, str)) else str(x)
text_or_str(x) == IF x.kind \in {"bytes", "str"} THEN x ELSE StrArg(x.text)

\* str.upper() and bytes.upper()
upper(x) == [kind |-> x.kind, text |-> Upper(x.text)]

\* bool as a caster outcome
Bool(b) == CastReturn("bool", IF b THEN TRUE_REPR ELSE FALSE_REPR, <<>>)

parse_boolean(x) == Bool(upper(text_or_str(x)) \in BOOLEAN_STRINGS)

\* texts that are no spelling of true: other words, padded and extended
\* spellings, other numbers
OtherTexts ==
    { <<"F", "A", "L", "S", "E">>, <<"N", "O">>, <<"O", "F", "F">>, <<"0">>, <<>>,
      <<" ", "T", "R", "U", "E">>, <<"T", "R", "U", "E", " ">>, <<"T", "R", "U", "E", "X">>,
      <<"Y", "E">>, <<"2">>, <<"1", ".", "0", "0">>, <<"0", "1">>, <<"1", ".">>,
      <<"N">>, <<"F">>, <<"?">> }

BooleanSpellings ==
    UNION { {text, Lower(text), MixedCase(text)} : text \in BooleanTexts \cup OtherTexts }

\* the values handed to the boolean caster
BooleanArgs ==
    {StrArg(text) : text \in BooleanSpellings}
    \cup {BytesArg(text) : text \in BooleanSpellings}
    \cup { BoolArg(TRUE_REPR), BoolArg(FALSE_REPR), IntArg(0), IntArg(1), IntArg(2),
           FloatArg(<<"1", ".", "0">>), FloatArg(<<"0", ".", "0">>),
           FloatArg(<<"1", ".", "5">>), FloatArg(NAN), NoneArg }

(***************************************************************************)
(* decimal.Decimal: a sign, a coefficient in text form and an exponent     *)
(***************************************************************************)
Dec(sign, coefficient, exp) == [sign |-> sign, int |-> coefficient, exp |-> exp]

IsZero(d) == d.int = <<"0">>

Zeros(n) == [i \in 1..n |-> "0"]

AllDigits(s) == \A i \in DOMAIN s : IsDigit(s[i])

\* decimal._exact_half: the digits after the first `digits` are 5000...
exact_half(coefficient, digits) ==
    /\ coefficient[digits + 1] = "5"
    /\ \A i \in (digits + 2)..Len(coefficient) : coefficient[i] = "0"

\* decimal.ROUND_HALF_EVEN: whether a coefficient cut after its first `digits`
\* digits (fewer than it has) is rounded up
round_half_even(coefficient, digits) ==
    IF exact_half(coefficient, digits)
    THEN digits # 0 /\ DigitValue(coefficient[digits]) % 2 = 1
    ELSE DigitValue(coefficient[digits + 1]) >= 5

\* the first `digits` digits of a coefficient, rounded
rounded(coefficient, digits) ==
    IF round_half_even(coefficient, digits) THEN Succ(SubSeq(coefficient, 1, digits))
    ELSE IF digits = 0 THEN <<"0">>
    ELSE SubSeq(coefficient, 1, digits)

\* Decimal._rescale(exp, ROUND_HALF_EVEN)
_rescale(d, exp) ==
    IF IsZero(d) THEN Dec(d.sign, <<"0">>, exp)
    ELSE IF d.exp >= exp THEN Dec(d.sign, d.int \o Zeros(d.exp - exp), exp)
    ELSE IF Len(d.int) + d.exp - exp < 0 THEN Dec(d.sign, <<"0">>, exp)
    ELSE Dec(d.sign, rounded(d.int, Len(d.int) + d.exp - exp), exp)

\* a coefficient that rounding made one digit longer than prec loses its last zero
trim(d, prec) ==
    IF Len(d.int) > prec THEN Dec(d.sign, Front(d.int), d.exp + 1) ELSE d

\* Decimal._fix(context): round to the precision of the context
_fix(d, prec) ==
    IF IsZero(d) \/ Len(d.int) <= prec THEN d
    ELSE trim(_rescale(d, Len(d.int) + d.exp - prec), prec)

\* the index of the first "e" or "E" of s, 0 if none
ExponentIndex(s) ==
    IF \A i \in DOMAIN s : s[i] \notin {"e", "E"} THEN 0
    ELSE CHOOSE i \in DOMAIN s : s[i] \in {"e", "E"} /\ \A j \in 1..(i - 1) : s[j] \notin {"e", "E"}

HasSign(s) == Len(s) > 0 /\ s[1] \in {"+", "-"}

Unsigned(s) == IF HasSign(s) THEN Tail(s) ELSE s

\* the part of a numeric literal before its exponent, and its exponent
MantissaOf(s) == IF ExponentIndex(s) = 0 THEN s ELSE SubSeq(s, 1, ExponentIndex(s) - 1)

ExponentOf(s) == IF ExponentIndex(s) = 0 THEN <<"0">> ELSE SubSeq(s, ExponentIndex(s) + 1, Len(s))

IntPart(m) == IF PointIndex(m) = 0 THEN m ELSE SubSeq(m, 1, PointIndex(m) - 1)

FracPart(m) == IF PointIndex(m) = 0 THEN <<>> ELSE SubSeq(m, PointIndex(m) + 1, Len(m))

\* (?=\d|\.\d)\d*(\.\d*)?
IsMantissa(m) ==
    /\ AllDigits(IntPart(m))
    /\ AllDigits(FracPart(m))
    /\ Len(IntPart(m)) + Len(FracPart(m)) > 0

\* [-+]?\d+
IsExponent(e) == Len(Unsigned(e)) > 0 /\ AllDigits(Unsigned(e))

ExponentValue(e) == IF IsNegative(e) THEN 0 - ToInt(Unsigned(e)) ELSE ToInt(Unsigned(e))

\* the numeric literals of the decimal module, without sign
IsDecimalLiteral(s) == IsMantissa(MantissaOf(s)) /\ IsExponent(ExponentOf(s))

INFINITY == <<"I", "N", "F", "I", "N", "I", "T", "Y">>

IsSpecialLiteral(s) == Upper(s) \in {Upper(INF), INFINITY, Upper(NAN)}

\* the exact value of a numeric literal
literal_value(s) ==
    Dec(IF IsNegative(s) THEN 1 ELSE 0,
        Canonical(IntPart(MantissaOf(Unsigned(s))) \o FracPart(MantissaOf(Unsigned(s)))),
        ExponentValue(ExponentOf(Unsigned(s))) - Len(FracPart(MantissaOf(Unsigned(s)))))

ERR_CONVERSION_SYNTAX == "decimal.InvalidOperation: ConversionSyntax"

ERR_CONTEXT_PREC == "valid range for prec is [1, MAX_PREC]"

\* a decimal as a caster outcome: signed coefficient and exponent
DecimalResult(d) ==
    CastReturn("decimal", (IF d.sign = 1 THEN <<"-">> ELSE <<>>) \o d.int, <<d.exp>>)

\* NaN and Infinity come back as they are, from quantize or from the fallback
SpecialResult(s) == CastReturn("decimal", Upper(s), <<>>)

\* Decimal.quantize raises InvalidOperation: the result would have more digits
\* than the precision of the context
quantize_fails(d, exp, prec) ==
    /\ ~ IsZero(d)
    /\ \/ d.exp + Len(d.int) - exp > prec
       \/ Len(_rescale(d, exp).int) > prec

\* try: return decimal_value.quantize(factor, context)
\* except InvalidOperation: return decimal_value
quantize_or_fallback(decimal_value, exp, prec) ==
    IF quantize_fails(decimal_value, exp, prec) THEN DecimalResult(decimal_value)
    ELSE DecimalResult(_rescale(decimal_value, exp))

\* if value.isdigit(): value += ".0"
with_fraction(val) ==
    IF Len(val) > 0 /\ AllDigits(val) THEN val \o <<".", "0">> ELSE val

\* the largest scale the factory quantizes at
MAX_SAFE_SCALE == 28

safe_scale(scale) == IF scale < MAX_SAFE_SCALE THEN scale ELSE MAX_SAFE_SCALE

\* context.create_decimal(value) and the quantization of its result
create_and_quantize(val, precision, scale) ==
    IF precision < 1 THEN CastRaise(ERR_CONTEXT_PREC)
    ELSE IF IsSpecialLiteral(Unsigned(val)) THEN SpecialResult(val)
    ELSE IF ~ IsDecimalLiteral(Unsigned(val)) THEN CastRaise(ERR_CONVERSION_SYNTAX)
    ELSE quantize_or_fallback(_fix(literal_value(val), precision), 0 - safe_scale(scale), precision)

\* DecimalFactory.__call__ on a text
DecimalFactory(val, precision, scale) ==
    create_and_quantize(with_fraction(strip(val)), precision, scale)

\* format(value, ".99g") for a float whose shortest text is its exact value in
\* positional notation: that text without the zeros that end its fraction
RECURSIVE format_99g(_)
format_99g(s) ==
    IF PointIndex(s) = 0 THEN s
    ELSE IF s[Len(s)] \in {"0", "."} THEN format_99g(Front(s))
    ELSE s

\* the text parse_decimal hands to the factory
decimal_text(val) ==
    CASE val.kind = "float" -> format_99g(val.text)
      [] OTHER -> val.text

DEFAULT_SCALE == 21

DEFAULT_PRECISION == 38

OrDefault(option, default) == IF option = None THEN default ELSE option[1]

parse_decimal(val, kwargs) ==
    IF val.kind = "none" THEN CastReturn("none", <<>>, <<>>)
    ELSE DecimalFactory(strip(decimal_text(val)),
                        OrDefault(kwargs.precision, DEFAULT_PRECISION),
                        OrDefault(kwargs.scale, DEFAULT_SCALE))

\* the values handed to the decimal caster: numeric texts with more, as many
\* and fewer fractional digits than the scale, halfway cases, texts with more
\* digits than the precision, texts that are no number, and other values
DecimalArgs ==
    { StrArg(<<"8", ".", "7", "0", "0">>),
      StrArg(<<"8", ".", "7">>),
      StrArg(<<"8">>),
      StrArg(<<"1", ".", "2", "5">>),
      StrArg(<<"1", ".", "3", "5">>),
      StrArg(<<"1", ".", "2", "5", "0", "1">>),
      StrArg(<<"1", ".", "2", "4", "9", "9">>),
      StrArg(<<"-", "1", ".", "2", "5">>),
      StrArg(<<"-", "0", ".", "0", "5">>),
      StrArg(<<"0", ".", "0", "0", "0">>),
      StrArg(<<"1", "2", "3", "4", "5", ".", "6">>),
      StrArg(<<"1", "2", "3", "4", ".", "5">>),
      StrArg(<<"1", "2", "3", "4", "5", "6", ".", "7", "8", "9">>),
      StrArg(<<"9", "9", ".", "9", "5">>),
      StrArg(<<"9", "9", "9", ".", "5">>),
      StrArg(<<"9", ".", "9", "9">>),
      StrArg(<<".", "5">>),
      StrArg(<<"5", ".">>),
      StrArg(<<"+", "2", ".", "5">>),
      StrArg(<<"1", "e", "3">>),
      StrArg(<<"2", ".", "5", "E", "-", "1">>),
      StrArg(<<" ", "8", ".", "7", "5", " ">>),
      StrArg(<<"0", ".", "5">>),
      StrArg(<<"1", ".", "5">>),
      StrArg(<<"2", ".", "5">>),
      StrArg(<<"0">>),
      StrArg(<<"0", ".", "1", "2", "3", "4", "5", "6", "7", "8", "9", "0", "1", "2", "3", "4", "5", "6", "7", "8", "9", "0", "2", "5", "0", "0", "0", "0", "0", "0", "0", "0", "0", "0", "0", "0", "0", "0", "0", "0", "0", "1">>),
      StrArg(<<"0", ".", "1", "2", "3", "4", "5", "6", "7", "8", "9", "0", "1", "2", "3", "4", "5", "6", "7", "8", "9", "0", "1", "2", "3", "4", "5", "6", "7", "8", "5">>),
      StrArg(<<"a", "b", "c">>),
      StrArg(<<>>),
      StrArg(<<"1", "_", "0", ".", "5">>),
      StrArg(<<"N", "a", "N">>),
      StrArg(<<"I", "n", "f", "i", "n", "i", "t", "y">>),
      StrArg(<<".">>),
      StrArg(<<"1", "e">>),
      StrArg(<<"-", "-", "1">>),
      BytesArg(<<"2", ".", "5">>),
      BytesArg(<<"1", "2", "3", "4", "5", ".", "6">>),
      IntArg(8),
      BigIntArg(<<"-", "1", "2", "3", "4", "5", "6">>),
      FloatArg(<<"2", ".", "5">>),
      FloatArg(<<"8", ".", "0">>),
      FloatArg(<<"-", "0", ".", "1", "2", "5">>),
      FloatArg(NAN),
      BoolArg(TRUE_REPR),
      NoneArg }

\* the precision and scale the caster is called with: the defaults, narrow
\* declarations, and a scale above the cap
DecimalKwargs ==
    { Unset,
      [Unset EXCEPT !.precision = Some(3), !.scale = Some(1)],
      [Unset EXCEPT !.precision = Some(5), !.scale = Some(2)],
      [Unset EXCEPT !.precision = Some(5), !.scale = Some(0)],
      [Unset EXCEPT !.scale = Some(2)],
      [Unset EXCEPT !.scale = Some(30)],
      [Unset EXCEPT !.precision = Some(0), !.scale = Some(0)] }

(***************************************************************************)
(* The casters as a state machine: one call of a caster per step           *)
(***************************************************************************)
IntegerTypes == {INTEGER, INT8, UINT8, INT16, UINT16, INT32, UINT32, INT64, UINT64}

\* ossis_TO_PYTHON_PARSER[t](x) for the integer types
integer_parser(t, x) ==
    CASE t = INT8 -> parse_int8(x)
      [] t = UINT8 -> parse_uint8(x)
      [] t = INT16 -> parse_int16(x)
      [] t = UINT16 -> parse_uint16(x)
      [] t = INT32 -> parse_int32(x)
      [] t = UINT32 -> parse_uint32(x)
      [] t = INT64 -> parse_int64(x)
      [] t = UINT64 -> parse_uint64(x)
      [] t = INTEGER -> parse_int64(x)

\* the widths of the fixed-width integer types
Widths == {8, 16, 32, 64}

\* 2^n for n = w - 1 and n = w, w a width
Pow2Table ==
    [n \in {w - 1 : w \in Widths} \cup Widths |->
        CASE n = 7 -> Pow2_7 [] n = 8 -> Pow2_8 [] n = 15 -> Pow2_15 [] n = 16 -> Pow2_16
          [] n = 31 -> Pow2_31 [] n = 32 -> Pow2_32 [] n = 63 -> Pow2_63 [] n = 64 -> Pow2_64]

\* every integer at distance at most one from a power of two 2^(w-1) or 2^w
\* or from its negative, and the integers around zero
IntegerInputs ==
    UNION { { Pow2Table[n], Succ(Pow2Table[n]), Pred(Pow2Table[n]),
              Neg(Pow2Table[n]), Neg(Succ(Pow2Table[n])), Neg(Pred(Pow2Table[n])) }
            : n \in DOMAIN Pow2Table }
    \cup {<<"0">>, <<"1">>, <<"-", "1">>}

\* the values handed to the integer casters: integers, texts, bytes, floats
\* and booleans
IntegerArgs ==
    {BigIntArg(n) : n \in IntegerInputs}
    \cup { StrArg(<<"8">>), StrArg(<<"-", "8">>), StrArg(<<" ", "1", "2", "8", " ">>),
           StrArg(<<"+", "0", "7">>), StrArg(<<"8", ".", "7">>), StrArg(<<>>),
           StrArg(<<"-">>), StrArg(<<"1", "_", "0">>), StrArg(<<"1", "_">>),
           BytesArg(<<"2", "5", "5">>),
           FloatArg(<<"8", ".", "7">>), FloatArg(<<"-", "0", ".", "5">>),
           FloatArg(<<"2", "5", "6", ".", "0">>), FloatArg(INF), FloatArg(NAN),
           BoolArg(TRUE_REPR), NoneArg }

Cast(op, type, arg, kwargs, result) ==
    [op |-> op, type |-> type, arg |-> arg, kwargs |-> kwargs, result |-> result]

InitCasters ==
    /\ meta = [t \in __members__ |-> Unset]
    /\ last = Cast("none", NULL, NoneArg, Unset, CastReturn("none", <<>>, <<>>))

\* a fixed-width integer caster applied to x
ParseInteger(t, x) ==
    /\ last' = Cast("parse_int", t, x, Unset, integer_parser(t, x))
    /\ UNCHANGED meta

\* the boolean caster applied to x
ParseBoolean(x) ==
    /\ last' = Cast("parse_boolean", BOOLEAN_, x, Unset, parse_boolean(x))
    /\ UNCHANGED meta

\* the decimal caster applied to x with the precision and scale of kwargs
ParseDecimal(x, kwargs) ==
    /\ last' = Cast("parse_decimal", DECIMAL, x, kwargs, parse_decimal(x, kwargs))
    /\ UNCHANGED meta

NextCasters ==
    \/ \E t \in IntegerTypes, x \in IntegerArgs : ParseInteger(t, x)
    \/ \E x \in BooleanArgs : ParseBoolean(x)
    \/ \E x \in DecimalArgs, kwargs \in DecimalKwargs : ParseDecimal(x, kwargs)

SpecCasters == InitCasters /\ [][NextCasters]_vars

(***************************************************************************)
(* The calendar of datetime.datetime                                       *)
(***************************************************************************)
NoneResult == CastReturn("none", <<>>, <<>>)

\* a datetime as a caster outcome: year, month, day, hour, minute, second
DatetimeResult(fields) == CastReturn("datetime", <<>>, fields)

is_leap(year) == year % 4 = 0 /\ (year % 100 # 0 \/ year % 400 = 0)

days_in_month(year, month) ==
    IF month = 2 THEN (IF is_leap(year) THEN 29 ELSE 28)
    ELSE IF month \in {4, 6, 9, 11} THEN 30
    ELSE 31

MINYEAR == 1

MAXYEAR == 9999

\* datetime.datetime(*fields) raises ValueError unless every field is in range
valid_datetime(fields) ==
    /\ MINYEAR <= fields[1] /\ fields[1] <= MAXYEAR
    /\ 1 <= fields[2] /\ fields[2] <= 12
    /\ 1 <= fields[3] /\ fields[3] <= days_in_month(fields[1], fields[2])
    /\ 0 <= fields[4] /\ fields[4] <= 23
    /\ 0 <= fields[5] /\ fields[5] <= 59
    /\ 0 <= fields[6] /\ fields[6] <= 59

\* the value of a short integer text
IntValue(s) == IF IsNegative(s) THEN 0 - ToInt(Magnitude(s)) ELSE ToInt(s)

\* the year, month and day of the day `doy` of a year that starts in March
civil_of_month(doy, year, mp) ==
    << IF mp < 10 THEN year ELSE year + 1,
       IF mp < 10 THEN mp + 3 ELSE mp - 9,
       doy - (153 * mp + 2) \div 5 + 1 >>

civil_of_year_day(doy, year) == civil_of_month(doy, year, (5 * doy + 2) \div 153)

civil_of_era_year(doe, era, yoe) ==
    civil_of_year_day(doe - (365 * yoe + yoe \div 4 - yoe \div 100), yoe + era * 400)

civil_of_era_day(doe, era) ==
    civil_of_era_year(doe, era, (doe - doe \div 1460 + doe \div 36524 - doe \div 146096) \div 365)

\* the date of a number of days since 1970-01-01
civil_from_days(days) ==
    civil_of_era_day((days + 719468) % 146097, (days + 719468) \div 146097)

\* the hour, minute and second of a second of the day
time_of_day(seconds) == <<seconds \div 3600, (seconds % 3600) \div 60, seconds % 60>>

\* the remainder and the quotient of a magnitude in text form by a small divisor
RECURSIVE Remainder(_, _)
Remainder(s, divisor) ==
    IF Len(s) = 0 THEN 0
    ELSE (Remainder(Front(s), divisor) * 10 + DigitValue(s[Len(s)])) % divisor

RECURSIVE Quotient(_, _)
Quotient(s, divisor) ==
    IF Len(s) = 0 THEN 0
    ELSE Quotient(Front(s), divisor) * 10
         + (Remainder(Front(s), divisor) * 10 + DigitValue(s[Len(s)])) \div divisor

SECONDS_PER_DAY == 86400

\* divmod(t, 86400) for an integer t in text form
epoch_days(t) ==
    IF ~ IsNegative(t) THEN Quotient(t, SECONDS_PER_DAY)
    ELSE IF Remainder(Magnitude(t), SECONDS_PER_DAY) = 0
    THEN 0 - Quotient(Magnitude(t), SECONDS_PER_DAY)
    ELSE 0 - Quotient(Magnitude(t), SECONDS_PER_DAY) - 1

epoch_seconds(t) ==
    IF ~ IsNegative(t) THEN Remainder(t, SECONDS_PER_DAY)
    ELSE (SECONDS_PER_DAY - Remainder(Magnitude(t), SECONDS_PER_DAY)) % SECONDS_PER_DAY

\* the first and the last second of the years 1 to 9999
MIN_TIMESTAMP == <<"-", "6", "2", "1", "3", "5", "5", "9", "6", "8", "0", "0">>

MAX_TIMESTAMP == <<"2", "5", "3", "4", "0", "2", "3", "0", "0", "7", "9", "9">>

\* the range of a 64-bit time_t
TIME_T_MIN == Neg(Pow2_63)

TIME_T_MAX == Pred(Pow2_63)

ERR_TIME_T_OVERFLOW == "OverflowError: timestamp out of range for platform time_t"

ERR_GMTIME == "OSError: Value too large for defined data type"

ERR_FLOAT_INFINITY == "OverflowError: cannot convert float infinity to integer"

\* datetime.datetime.fromtimestamp(t, tz=utc).replace(tzinfo=None) inside
\* try ... except (ValueError, TypeError): return None. A time outside the
\* range of time_t raises OverflowError; for a time outside the years 1 to
\* 9999 the gmtime of the platform either fails (OSError) or gives a year that
\* datetime rejects (ValueError, caught).
fromtimestamp(t, gmtime_fails) ==
    IF int_lt(t, TIME_T_MIN) \/ int_lt(TIME_T_MAX, t) THEN CastRaise(ERR_TIME_T_OVERFLOW)
    ELSE IF int_lt(t, MIN_TIMESTAMP) \/ int_lt(MAX_TIMESTAMP, t)
    THEN (IF gmtime_fails THEN CastRaise(ERR_GMTIME) ELSE NoneResult)
    ELSE DatetimeResult(civil_from_days(epoch_days(t)) \o time_of_day(epoch_seconds(t)))

(***************************************************************************)
(* parse_iso                                                               *)
(***************************************************************************)
\* a text of digits taken as a number of seconds unless it is as long as a date
isdigit_unless_date_length(s) == Len(s) > 0 /\ Len(s) # 10 /\ AllDigits(s)

\* str.isdigit()
isdigit(s) == Len(s) > 0 /\ AllDigits(s)

\* int(field) of every field
FieldValues(fields) ==
    [i \in DOMAIN fields |-> IntValue(int_of_text(strip(fields[i])).value.text)]

\* datetime.datetime(*map(int, fields)), None when it raises ValueError
make_datetime(fields) ==
    IF \E i \in DOMAIN fields : int_of_text(strip(fields[i])).raised THEN NoneResult
    ELSE IF valid_datetime(FieldValues(fields)) THEN DatetimeResult(FieldValues(fields))
    ELSE NoneResult

ZeroField == <<"0">>

\* the fields of YYYY-MM-DD, YYYY-MM-DD HH:MM and YYYY-MM-DD HH:MM:SS
DateFields(v) ==
    <<SubSeq(v, 1, 4), SubSeq(v, 6, 7), SubSeq(v, 9, 10), ZeroField, ZeroField, ZeroField>>

MinuteFields(v) ==
    <<SubSeq(v, 1, 4), SubSeq(v, 6, 7), SubSeq(v, 9, 10),
      SubSeq(v, 12, 13), SubSeq(v, 15, 16), ZeroField>>

SecondFields(v) ==
    <<SubSeq(v, 1, 4), SubSeq(v, 6, 7), SubSeq(v, 9, 10),
      SubSeq(v, 12, 13), SubSeq(v, 15, 16), SubSeq(v, 18, 19)>>

\* if value[10] not in ("T", " ") and value[13] != ":": return None
separators_wrong(v) == v[11] \notin {"T", " "} /\ v[14] # ":"

\* the date shapes on a text without its Z and its offset; the source counts
\* characters from 0
parse_shape(v) ==
    IF v[5] # "-" \/ v[8] # "-" THEN NoneResult
    ELSE IF Len(v) = 10 THEN make_datetime(DateFields(v))
    ELSE IF Len(v) >= 16
    THEN IF separators_wrong(v) THEN NoneResult
         ELSE IF Len(v) >= 19 /\ v[17] = ":" THEN make_datetime(SecondFields(v))
         ELSE IF Len(v) = 16 THEN make_datetime(MinuteFields(v))
         ELSE NoneResult
    ELSE NoneResult

\* value.split("+")[0]
before_plus(v) ==
    SubSeq(v, 1, (CHOOSE i \in DOMAIN v : v[i] = "+" /\ \A j \in 1..(i - 1) : v[j] # "+") - 1)

\* if "+" in value: the text before it, None unless its length is in [10, 28]
parse_offset(v) ==
    IF "+" \in Range(v)
    THEN IF 10 <= Len(before_plus(v)) /\ Len(before_plus(v)) <= 28
         THEN parse_shape(before_plus(v))
         ELSE NoneResult
    ELSE parse_shape(v)

\* if value[-1] == "Z": value = value[:-1]
strip_z(v) == IF v[Len(v)] = "Z" THEN Front(v) ELSE v

\* string parsing
parse_text(v) ==
    IF 10 <= Len(v) /\ Len(v) <= 33 THEN parse_offset(strip_z(v)) ELSE NoneResult

\* a text: digits are a number of seconds, anything else is parsed
parse_str(v, gmtime_fails) ==
    IF isdigit(v) THEN fromtimestamp(Canonical(v), gmtime_fails) ELSE parse_text(v)

\* int(value) of a float and the timestamp of the result
parse_float(v, gmtime_fails) ==
    IF int_of_float(v).raised
    THEN (IF Magnitude(v) = INF THEN CastRaise(ERR_FLOAT_INFINITY) ELSE NoneResult)
    ELSE fromtimestamp(int_of_float(v).value.text, gmtime_fails)

\* a datetime without its microseconds, a date at midnight: the value is its
\* text YYYY-MM-DD HH:MM:SS or YYYY-MM-DD
parse_native(x) ==
    IF x.kind = "datetime" THEN make_datetime(SecondFields(x.text))
    ELSE make_datetime(DateFields(x.text))

DatetimeArg(text) == [kind |-> "datetime", text |-> text]

DateArg(text) == [kind |-> "date", text |-> text]

ListArg(text) == [kind |-> "list", text |-> text]

parse_iso(x, gmtime_fails) ==
    CASE x.kind \in {"str", "bytes"} -> parse_str(x.text, gmtime_fails)
      [] x.kind = "int" -> fromtimestamp(x.text, gmtime_fails)
      [] x.kind = "float" -> parse_float(x.text, gmtime_fails)
      [] x.kind \in {"datetime", "date"} -> parse_native(x)
      [] OTHER -> NoneResult

ERR_INVALID_TIMESTAMP == "Invalid timestamp."

ERR_INVALID_DATE == "Invalid date."

\* result.date() and result.time()
date_of(result) == CastReturn("date", <<>>, SubSeq(result.value.num, 1, 3))

time_of(result) == CastReturn("time", <<>>, SubSeq(result.value.num, 4, 6))

\* parse_timestamp, parse_date and parse_time on the result of parse_iso
timestamp_of_result(result) ==
    IF result.raised THEN result
    ELSE IF result.value.kind = "none" THEN CastRaise(ERR_INVALID_TIMESTAMP)
    ELSE result

\* the date of the result, None when there is no result
date_of_result_or_none(result) ==
    IF result.raised THEN result
    ELSE IF result.value.kind = "none" THEN result
    ELSE date_of(result)

date_of_result(result) ==
    IF result.raised THEN result
    ELSE IF result.value.kind = "none" THEN CastRaise(ERR_INVALID_DATE)
    ELSE date_of(result)

time_of_result(result) ==
    IF result.raised THEN result
    ELSE IF result.value.kind = "none" THEN CastRaise(ERR_INVALID_DATE)
    ELSE time_of(result)

parse_timestamp(x, gmtime_fails) == timestamp_of_result(parse_iso(x, gmtime_fails))

parse_date(x, gmtime_fails) == date_of_result(parse_iso(x, gmtime_fails))

parse_time(x, gmtime_fails) == time_of_result(parse_iso(x, gmtime_fails))

TemporalTypes == {DATE, TIME, TIMESTAMP}

\* ossisTypes.parse for the temporal types: None for None, else the caster
temporal_parser(t, x, gmtime_fails) ==
    IF x.kind = "none" THEN NoneResult
    ELSE CASE t = DATE -> parse_date(x, gmtime_fails)
           [] t = TIME -> parse_time(x, gmtime_fails)
           [] t = TIMESTAMP -> parse_timestamp(x, gmtime_fails)

\* the values handed to parse_iso: dates and timestamps of every shape, with
\* wrong separators and fields, with Z and offsets, of every length class;
\* texts of digits; integers and floats inside and outside the range of
\* datetime and of time_t; native dates; values of other types
TemporalArgs ==
    { StrArg(<<"2", "0", "2", "3", "-", "0", "1", "-", "0", "1">>),
      StrArg(<<"2", "0", "2", "3", "-", "0", "1", "-", "0", "1", "T", "0", "0", ":", "0", "0", ":", "0", "1">>),
      StrArg(<<"2", "0", "2", "3", "/", "0", "1", "/", "0", "1">>),
      StrArg(<<"2", "0", "2", "3", "-", "0", "1", "-", "0", "1", "X", "0", "0", ":",
          "0", "0", ":", "0", "0">>),
      StrArg(<<"2", "0", "2", "3", "-", "0", "1", "-", "0", "1", "T", "0", "0", "-",
          "0", "0", ":", "0", "0">>),
      StrArg(<<"2", "0", "2", "3", "-", "0", "1", "-", "0", "1", "X", "0", "0", "-",
          "0", "0", ":", "0", "0">>),
      StrArg(<<"2", "0", "2", "3", "-", "0", "1", "-", "0", "1", "T", "0", "0", ":", "0", "0">>),
      StrArg(<<"2", "0", "2", "3", "-", "0", "1", "-", "0", "1", "X", "0", "0", ":", "0", "0">>),
      StrArg(<<"2", "0", "2", "3", "-", "0", "1", "-", "0", "1", "T", "0", "0", "-", "0", "0">>),
      StrArg(<<"2", "0", "2", "3", "-", "0", "1", "-", "0", "1", "X", "0", "0", "-", "0", "0">>),
      StrArg(<<"2", "0", "2", "3", "-", "0", "1", "-", "0", "1", "T", "0", "0", ":",
          "0", "0", ":", "0", "0">>),
      StrArg(<<"2", "0", "2", "3", "-", "0", "1", "-", "0", "1", " ", "0", "0", ":",
          "0", "0", ":", "0", "1">>),
      StrArg(<<"2", "0", "2", "3", "-", "0", "1", "-", "0", "1", "T", "0", "0", ":",
          "0", "0", ":", "0", "0", "Z">>),
      StrArg(<<"2", "0", "2", "3", "-", "0", "1", "-", "0", "1", "Z">>),
      StrArg(<<"2", "0", "2", "3", "-", "0", "1", "-", "0", "1", "Z", "Z">>),
      StrArg(<<"2", "0", "2", "3", "-", "0", "1", "-", "0", "1", "T", "0", "0", ":",
          "0", "0", ":", "0", "0", ".", "0", "0", "0", "0", "0", "0", "0", "0",
          "0", "0", "0", "0", "0">>),
      StrArg(<<"2", "0", "2", "3", "-", "0", "1", "-", "0", "1", "T", "0", "0", ":",
          "0", "0", ":", "0", "0", ".", "0", "0", "0", "0", "0", "0", "0", "0",
          "0", "0", "0", "0", "0", "Z">>),
      StrArg(<<"2", "0", "2", "3", "-", "0", "1", "-", "0", "1", "T", "0", "0", ":",
          "0", "0", ":", "0", "0", ".", "0", "0", "0", "0", "0", "0", "0", "0",
          "0", "0", "0", "0", "Z">>),
      StrArg(<<"2", "0", "2", "3", "-", "0", "1", "-", "0", "1", "T", "0", "0", ":",
          "0", "0", ":", "0", "0", "+", "0", "1", ":", "0", "0">>),
      StrArg(<<"2", "0", "2", "3", "-", "0", "1", "-", "0", "+", "0", "1", ":", "0", "0">>),
      StrArg(<<"2", "0", "2", "3", "-", "0", "1", "-", "0", "1", "T", "0", "0", ":",
          "0", "0", ":", "0">>),
      StrArg(<<"2", "0", "2", "3", "-", "0", "1", "-", "0", "1", "T", "0", "0", ":",
          "0", "0", ":", "0", "0", ".", "5">>),
      StrArg(<<"2", "0", "2", "3", "-", "0", "1", "-", "0", "1", " ", "0", "0", ":",
          "0", "0", " ">>),
      StrArg(<<"2", "0", "2", "3", "-", "1", "3", "-", "0", "1">>),
      StrArg(<<"2", "0", "2", "3", "-", "0", "2", "-", "3", "0">>),
      StrArg(<<"2", "0", "2", "3", "-", "+", "1", "-", "0", "1">>),
      StrArg(<<"2", "0", "2", "3", "-", "1", "_", "-", "0", "1">>),
      StrArg(<<"a", "b", "c", "d", "e", "f", "g", "h", "i", "j">>),
      StrArg(<<"a", "p", "p", "l", "e", "s">>),
      StrArg(<<"2", "0", "2", "3", "-", "0", "1", "-", "0", "1", "T", "2", "5", ":",
          "0", "0", ":", "0", "0">>),
      StrArg(<<"2", "0", "2", "3", "-", "0", "1", "-", "0", "1", "T", "0", "0", ":",
          "0", "0", ":", "6", "0">>),
      StrArg(<<"2", "0", "2", "3", "-", "0", "1", "-", "0", "1", "T", "0", "0", ":",
          "0", "0", ":", "0", "0", "+">>),
      StrArg(<<"+", "2", "0", "2", "3", "-", "0", "1", "-", "0", "1">>),
      StrArg(<<"2", "0", "2", "3", "-", "0", "1", "-", "0", "1", " ", "0", "0", ":",
          "0", "0", ":", "0", "0", " ", "+", "0", "1", "0", "0">>),
      StrArg(<<"2", "0", "2", "3", "-", "0", "1", "-", "0", "1", "+", "Z">>),
      StrArg(<<"0", "0", "0", "0", "-", "0", "1", "-", "0", "1">>),
      StrArg(<<"1", "7", "1", "8", "5", "3", "0", "7", "5", "4", "Z">>),
      StrArg(<<"2", "0", "2", "3", "-", "0", "1", "-", "0", "1", "T", "0", "0", ":",
          "0", "0", "-", "0", "0">>),
      StrArg(<<"2", "0", "2", "3", "-", " ", "1", "-", "0", "1">>),
      StrArg(<<"2", "0", "2", "3", "-", "-", "1", "-", "0", "1">>),
      StrArg(<<"2", "_", "2", "3", "-", "0", "1", "-", "0", "1">>),
      StrArg(<<"2", "0", "2", "3", "-", "0", "1", "-", "0", "1", "T", "0", "0", ":",
          "0", "0", ":", "0", "0", "+", "0", "1", ":", "0", "0", "Z">>),
      StrArg(<<"2", "0", "2", "3", "-", "0", "1", "-", "0", "1", "T", " ", "1", ":",
          " ", "2", ":", " ", "3">>),
      StrArg(<<"2", "0", "2", "3", "-", "0", "1", "-", "0", "1", "T", "0", "0", ":",
          "0", "0", ":", "0", "x">>),
      StrArg(<<"2", "0", "2", "3", "-", "0", "1", "-", "0", "1", "T", "0", "0", ":",
          "0", "0", ":", "0", "0", ".", "1", "2", "3", "4", "5", "6", "7",
          "8">>),
      StrArg(<<"2", "0", "2", "3", "-", "0", "1", "-", "0", "1", "T", "0", "0", ":",
          "0", "0", ":", "0", "0", ".", "1", "2", "3", "4", "5", "6", "7", "8",
          "9", "+", "0", "1", ":", "0", "0">>),
      StrArg(<<"2", "0", "2", "3", "-", "0", "1", "-", "0", "1", "T", "0", "0", ":",
          "0", "0", ":", "0", "0", ".", "1", "2", "3", "4", "5", "6", "7", "8",
          "+", "0", "1">>),
      StrArg(<<"0", "0", "0", "1", "-", "0", "1", "-", "0", "1">>),
      StrArg(<<"9", "9", "9", "9", "-", "1", "2", "-", "3", "1", "T", "2", "3", ":",
          "5", "9", ":", "5", "9">>),
      StrArg(<<"2", "0", "2", "4", "-", "0", "2", "-", "2", "9">>),
      StrArg(<<"2", "0", "2", "3", "-", "0", "2", "-", "2", "9">>),
      StrArg(<<"2", "0", "2", "3", "-", "0", "1", "-", "0", "1", "T", "2", "4", ":", "0", "0">>),
      StrArg(<<"2", "0", "2", "3", "-", "0", "1", "-", "0", "1", "T", "0", "0", ":", "6", "0">>),
      StrArg(<<"2", "0", "2", "3", "-", "0", "1", "-", "0", "1", "T", "0", "0", ":",
          "0", "0", "x">>),
      StrArg(<<"2", "0", "2", "3", "-", "0", "1", "-", "0">>),
      StrArg(<<"2", "0", "2", "3", "-", "0", "1", "-", "0", "1", "T", "0", "0", ":", "0">>),
      StrArg(<<"2", "0", "2", "3", "-", "0", "1", "-", "0", "1", "T", "0", "0", ":",
          "0", "0", ":">>),
      StrArg(<<"2", "0", "2", "3", "-", "0", "1", "-", "0", "1", "T", "0", "0", ":",
          "0", "0", " ", "0", "0">>),
      StrArg(<<"2", "0", "2", "3", "-", "0", "1", "-", "0", "1", " ", "0", "0", ".",
          "0", "0", ".", "0", "0">>),
      StrArg(<<"2", "0", "2", "3", "-", "0", "1", "-", "0", "1", "0", "0", "0", ":",
          "0", "0", ":", "0", "0">>),
      StrArg(<<>>),
      StrArg(<<"Z">>),
      StrArg(<<"2", "0", "2", "3", "-", "0", "1", "-", "0", "1", "T", "1", "2", ":", "3", "4">>),
      StrArg(<<"2", "0", "2", "3", "-", "0", "1", "-", "0", "1", " ", "1", "2", ":",
          "3", "4", ":", "5", "6">>),
      StrArg(<<"2", "0", "2", "4", "-", "0", "6", "-", "1", "6", " ", "0", "9", ":",
          "3", "9", ":", "1", "4">>),
      StrArg(<<"2", "0", "2", "3", "-", "0", "1", "-", "0", "Z">>),
      StrArg(<<"2", "0", "2", "3", "-", "0", "1", "-", "0", "1", "T", "1", "2", ":",
          "3", "4", "Z">>),
      StrArg(<<"2", "0", "2", "3", "-", "0", "1", "-", "0", "1", "T", "1", "2", ":",
          "3", "4", "+", "0", "2", ":", "0", "0">>),
      StrArg(<<"1", "7", "1", "8", "5", "3", "0", "7", "5", "4">>),
      StrArg(<<"0">>),
      StrArg(<<"0", "0", "0", "0", "0", "0", "0", "0", "0", "0">>),
      StrArg(<<"2", "0", "2", "3", "0", "1", "0", "1">>),
      StrArg(<<"1", "2", "3", "4", "5", "6", "7", "8", "9", "0", "1">>),
      StrArg(<<"2", "5", "3", "4", "0", "2", "3", "0", "0", "7", "9", "9">>),
      StrArg(<<"2", "5", "3", "4", "0", "2", "3", "0", "0", "8", "0", "0">>),
      StrArg(<<"9", "9", "9", "9", "9", "9", "9", "9", "9", "9", "9", "9", "9", "9",
          "9", "9", "9", "9", "9", "9">>),
      StrArg(<<"9", "2", "2", "3", "3", "7", "2", "0", "3", "6", "8", "5", "4", "7",
          "7", "5", "8", "0", "7">>),
      StrArg(<<"9", "2", "2", "3", "3", "7", "2", "0", "3", "6", "8", "5", "4", "7",
          "7", "5", "8", "0", "8">>),
      StrArg(<<"1", "0", "0", "0", "0", "0", "0", "0", "0", "0", "0", "0", "0", "0",
          "0", "0", "0", "0">>),
      BytesArg(<<"2", "0", "2", "3", "-", "0", "1", "-", "0", "1">>),
      BytesArg(<<"1", "7", "1", "8", "5", "3", "0", "7", "5", "4">>),
      BytesArg(<<"2", "0", "2", "3", "-", "0", "1", "-", "0", "1", "T", "0", "0", ":",
          "0", "0", ":", "0", "0", "Z">>),
      BigIntArg(<<"1", "7", "1", "8", "5", "3", "0", "7", "5", "4">>),
      BigIntArg(<<"0">>),
      BigIntArg(<<"-", "1">>),
      BigIntArg(<<"8", "6", "4", "0", "0">>),
      BigIntArg(<<"9", "5", "1", "7", "8", "2", "4", "0", "0">>),
      BigIntArg(<<"-", "6", "2", "1", "3", "5", "5", "9", "6", "8", "0", "0">>),
      BigIntArg(<<"-", "6", "2", "1", "3", "5", "5", "9", "6", "8", "0", "1">>),
      BigIntArg(<<"2", "5", "3", "4", "0", "2", "3", "0", "0", "7", "9", "9">>),
      BigIntArg(<<"2", "5", "3", "4", "0", "2", "3", "0", "0", "8", "0", "0">>),
      BigIntArg(<<"1", "0", "0", "0", "0", "0", "0", "0", "0", "0", "0", "0", "0", "0",
          "0", "0", "0", "0", "0", "0", "0">>),
      BigIntArg(<<"-", "1", "0", "0", "0", "0", "0", "0", "0", "0", "0", "0", "0", "0",
          "0", "0", "0", "0", "0", "0", "0", "0">>),
      BigIntArg(<<"9", "2", "2", "3", "3", "7", "2", "0", "3", "6", "8", "5", "4", "7",
          "7", "5", "8", "0", "8">>),
      BigIntArg(<<"-", "9", "2", "2", "3", "3", "7", "2", "0", "3", "6", "8", "5", "4",
          "7", "7", "5", "8", "0", "8">>),
      BigIntArg(<<"9", "2", "2", "3", "3", "7", "2", "0", "3", "6", "8", "5", "4", "7",
          "7", "5", "8", "0", "7">>),
      FloatArg(<<"1", "7", "1", "8", "5", "3", "0", "7", "5", "4", ".", "9">>),
      FloatArg(<<"-", "1", ".", "5">>),
      FloatArg(<<"0", ".", "5">>),
      FloatArg(<<"i", "n", "f">>),
      FloatArg(<<"-", "i", "n", "f">>),
      FloatArg(<<"n", "a", "n">>),
      NoneArg,
      BoolArg(TRUE_REPR),
      ListArg(<<>>),
      DatetimeArg(<<"2", "0", "2", "3", "-", "0", "1", "-", "0", "1", " ", "1", "2",
          ":", "3", "4", ":", "5", "6">>),
      DateArg(<<"2", "0", "2", "3", "-", "0", "1", "-", "0", "1">>) }

\* parse_iso applied to x
ParseIso(x, gmtime_fails) ==
    /\ last' = Cast("parse_iso", NULL, x, Unset, parse_iso(x, gmtime_fails))
    /\ UNCHANGED meta

\* ossisTypes.DATE / TIME / TIMESTAMP .parse(x)
ParseTemporal(t, x, gmtime_fails) ==
    /\ last' = Cast("parse", t, x, Unset, temporal_parser(t, x, gmtime_fails))
    /\ UNCHANGED meta

NextTemporal ==
    \/ \E x \in TemporalArgs, gmtime_fails \in BOOLEAN : ParseIso(x, gmtime_fails)
    \/ \E t \in TemporalTypes, x \in TemporalArgs, gmtime_fails \in BOOLEAN :
            ParseTemporal(t, x, gmtime_fails)

SpecTemporal == InitCasters /\ [][NextTemporal]_vars

(***************************************************************************)
(* find_compatible_type                                                    *)
(***************************************************************************)
is_numeric(t) ==
    t \in { INTEGER, DOUBLE, DECIMAL, BOOLEAN_, INT8, UINT8, INT16, UINT16, INT32,
            UINT32, INT64, UINT64, FLOAT16, FLOAT32, FLOAT64 }

is_temporal(t) == t \in {DATE, TIME, TIMESTAMP}

is_large_object(t) == t \in {VARCHAR, BLOB, VARBINARY}

\* type_hierarchy without the rank of DECIMAL
type_hierarchy_without_decimal ==
    [t \in {BOOLEAN_} |-> 1]
    @@ [t \in {INTEGER, INT8, UINT8, INT16, UINT16, INT32, UINT32, INT64, UINT64} |-> 2]
    @@ [t \in {DOUBLE, FLOAT16, FLOAT32, FLOAT64} |-> 3]
    @@ [t \in {DATE} |-> 1]
    @@ [t \in {TIMESTAMP} |-> 2]
    @@ [t \in {BLOB, VARBINARY} |-> 1]
    @@ [t \in {VARCHAR} |-> 2]

type_hierarchy ==
    [t \in {BOOLEAN_} |-> 1]
    @@ [t \in {INTEGER, INT8, UINT8, INT16, UINT16, INT32, UINT32, INT64, UINT64} |-> 2]
    @@ [t \in {DOUBLE, FLOAT16, FLOAT32, FLOAT64} |-> 3]
    @@ [t \in {DECIMAL} |-> 4]
    @@ [t \in {DATE} |-> 1]
    @@ [t \in {TIMESTAMP} |-> 2]
    @@ [t \in {BLOB, VARBINARY} |-> 1]
    @@ [t \in {VARCHAR} |-> 2]

\* type_hierarchy.get(t, 0)
hierarchy_key(t) == IF t \in DOMAIN type_hierarchy THEN type_hierarchy[t] ELSE 0

\* max(types, key=...): the first of the members with the greatest key
max_by_hierarchy(types) ==
    types[CHOOSE i \in DOMAIN types :
              /\ \A j \in DOMAIN types : hierarchy_key(types[j]) <= hierarchy_key(types[i])
              /\ \A j \in 1..(i - 1) : hierarchy_key(types[j]) < hierarchy_key(types[i])]

\* the members of the mixed set that collapses to VARBINARY
BinaryStructText == {BLOB, VARBINARY, STRUCT, JSONB, VARCHAR}

\* find_compatible_type without the test for BLOB and VARBINARY among mixed types
find_compatible_type_without_binary(types, default) ==
    IF Len(types) = 0 THEN NULL
    ELSE IF Cardinality(Range(types)) = 1 THEN types[1]
    ELSE IF \A i \in DOMAIN types : is_numeric(types[i]) THEN max_by_hierarchy(types)
    ELSE IF \A i \in DOMAIN types : is_temporal(types[i]) THEN max_by_hierarchy(types)
    ELSE IF \A i \in DOMAIN types : is_large_object(types[i]) THEN max_by_hierarchy(types)
    ELSE IF \A i \in DOMAIN types : types[i] \in BinaryStructText THEN VARBINARY
    ELSE default

find_compatible_type(types, default) ==
    IF Len(types) = 0 THEN NULL
    ELSE IF Cardinality(Range(types)) = 1 THEN types[1]
    ELSE IF \A i \in DOMAIN types : is_numeric(types[i]) THEN max_by_hierarchy(types)
    ELSE IF \A i \in DOMAIN types : is_temporal(types[i]) THEN max_by_hierarchy(types)
    ELSE IF \A i \in DOMAIN types : is_large_object(types[i]) THEN max_by_hierarchy(types)
    ELSE IF \A i \in DOMAIN types : types[i] \in BinaryStructText THEN VARBINARY
    ELSE IF \E i \in DOMAIN types : types[i] \in {BLOB, VARBINARY} THEN VARBINARY
    ELSE default

\* the longest list of types given to find_compatible_type
MaxTypes == 3

\* every list of at most MaxTypes members of the enum
TypeLists == UNION {[1..n -> __members__] : n \in 0..MaxTypes}

\* the value of `default` when the caller gives none
Defaults == {VARCHAR}

Resolution(op, types, default, result) ==
    [op |-> op, types |-> types, default |-> default, result |-> result]

\* a list of types is at hand, nothing is resolved yet
InitPromotion ==
    /\ meta = [t \in __members__ |-> Unset]
    /\ \E types \in TypeLists :
           last = Resolution("given", types, VARCHAR, NULL)

\* find_compatible_type(types) on the list at hand
FindCompatibleType ==
    /\ last.op = "given"
    /\ \E default \in Defaults :
           last' = Resolution("find_compatible_type", last.types, default,
                              find_compatible_type(last.types, default))
    /\ UNCHANGED meta

\* find_compatible_type([resolved, t]): the result resolved with one more type
FindCompatibleWith(t) ==
    /\ last.op = "find_compatible_type"
    /\ Len(last.types) < MaxTypes
    /\ last' = Resolution("find_compatible_type", <<last.result, t>>, last.default,
                          find_compatible_type(<<last.result, t>>, last.default))
    /\ UNCHANGED meta

NextPromotion ==
    \/ FindCompatibleType
    \/ \E t \in __members__ : FindCompatibleWith(t)

SpecPromotion == InitPromotion /\ [][NextPromotion]_vars

(***************************************************************************)
(* The column encodings: Constant, Function, Dictionary, RunLength, Sparse *)
(***************************************************************************)
\* a null and a value of a column
Null == <<>>

Value(n) == <<n>>

\* a column: its encoding, its declared length and its payload
\* (values: the stored values; encoding: the index array of a dictionary;
\* lengths: the run lengths; indices: the positions of the sparse values)
Column(kind, length, values, encoding, lengths, indices) ==
    [kind |-> kind, length |-> length, values |-> values, encoding |-> encoding,
     lengths |-> lengths, indices |-> indices]

\* Constant: one value, broadcast to `length` rows
ConstantColumn(val, length) == Column("constant", length, <<val>>, <<>>, <<>>, <<>>)

\* Function: a generator without arguments, called once for each row; the
\* generator gives the same value at every call
FunctionColumn(binding, length) == Column("function", length, <<binding>>, <<>>, <<>>, <<>>)

\* the position of a value in a table
PositionIn(table, val) == CHOOSE k \in DOMAIN table : table[k] = val

\* the distinct values in the order of their first occurrence
RECURSIVE Distinct(_)
Distinct(s) ==
    IF Len(s) = 0 THEN <<>>
    ELSE IF s[Len(s)] \in Range(Front(s)) THEN Distinct(Front(s))
    ELSE Append(Distinct(Front(s)), s[Len(s)])

\* the index array of the values into the table, counted from 0
EncodingOf(vals, table) == [i \in DOMAIN vals |-> PositionIn(table, vals[i]) - 1]

\* Dictionary: the table of distinct values and the index array
DictionaryColumn(vals) ==
    Column("dictionary", Len(vals), Distinct(vals), EncodingOf(vals, Distinct(vals)), <<>>, <<>>)

\* the runs with one more value: a new run of one, never merged
append_run_unmerged(runs, val) ==
    [values |-> Append(runs.values, val), lengths |-> Append(runs.lengths, 1)]

\* the runs with one more value: the last run grows when it holds the value
append_run(runs, val) ==
    IF Len(runs.values) > 0 /\ runs.values[Len(runs.values)] = val
    THEN [runs EXCEPT !.lengths[Len(runs.lengths)] = @ + 1]
    ELSE [values |-> Append(runs.values, val), lengths |-> Append(runs.lengths, 1)]

\* adjacent equal values merged into (value, run length) pairs
RECURSIVE RunsOf(_)
RunsOf(s) ==
    IF Len(s) = 0 THEN [values |-> <<>>, lengths |-> <<>>]
    ELSE append_run(RunsOf(Front(s)), s[Len(s)])

ColumnOfRuns(runs, length) == Column("rle", length, runs.values, <<>>, runs.lengths, <<>>)

\* RunLength: the runs of the values
RLEColumn(vals) == ColumnOfRuns(RunsOf(vals), Len(vals))

IsValue(val) == val # Null

\* the positions of the values that are not null, ascending, counted from 0
RECURSIVE IndicesOf(_)
IndicesOf(s) ==
    IF Len(s) = 0 THEN <<>>
    ELSE IF IsValue(s[Len(s)]) THEN Append(IndicesOf(Front(s)), Len(s) - 1)
    ELSE IndicesOf(Front(s))

\* Sparse: the values that are not null and their positions
SparseColumn(vals) ==
    Column("sparse", Len(vals), SelectSeq(vals, IsValue), <<>>, <<>>, IndicesOf(vals))

\* a value repeated
Repeat(val, n) == [i \in 1..n |-> val]

\* the runs expanded, each run written once
RECURSIVE expand_runs_once(_, _)
expand_runs_once(vals, lengths) ==
    IF Len(vals) = 0 THEN <<>>
    ELSE Append(expand_runs_once(Front(vals), Front(lengths)), vals[Len(vals)])

\* the runs expanded to a flat sequence
RECURSIVE expand_runs(_, _)
expand_runs(vals, lengths) ==
    IF Len(vals) = 0 THEN <<>>
    ELSE expand_runs(Front(vals), Front(lengths)) \o Repeat(vals[Len(vals)], lengths[Len(vals)])

\* the sparse values at their positions, null elsewhere
fill_sparse(vals, indices, length) ==
    [i \in 1..length |->
        IF (i - 1) \in Range(indices) THEN vals[PositionIn(indices, i - 1)] ELSE Null]

\* materialize(): the full sequence of the values of a column
materialize(column) ==
    CASE column.kind \in {"constant", "function"} -> Repeat(column.values[1], column.length)
      [] column.kind = "dictionary" ->
            [i \in 1..column.length |-> column.values[column.encoding[i] + 1]]
      [] column.kind = "rle" -> expand_runs(column.values, column.lengths)
      [] column.kind = "sparse" -> fill_sparse(column.values, column.indices, column.length)

\* the transforms applied to the stored values: one that keeps different
\* values different, and one that does not
Transforms == {"double", "parity"}

transform_value(f, val) ==
    IF val = Null THEN Null
    ELSE IF f = "double" THEN Value(val[1] * 2)
    ELSE Value(val[1] % 2)

\* a transform applies to the stored values only
transform(column, f) ==
    [column EXCEPT !.values = [i \in DOMAIN column.values |-> transform_value(f, column.values[i])]]

\* the longest sequence of values and the greatest value given to a column
MaxRows == 3

MaxValue == 3

\* the most transforms applied to one column
MaxTransforms == 2

RowValues == {Null} \cup {Value(n) : n \in 1..MaxValue}

RowSequences == UNION {[1..n -> RowValues] : n \in 0..MaxRows}

\* every column built from a sequence of values, from a constant or from a
\* generator, with the values it was built from
BuiltColumns ==
    {[column |-> DictionaryColumn(vals), given |-> vals] : vals \in RowSequences}
    \cup {[column |-> RLEColumn(vals), given |-> vals] : vals \in RowSequences}
    \cup {[column |-> SparseColumn(vals), given |-> vals] : vals \in RowSequences}
    \cup {[column |-> ConstantColumn(val, n), given |-> Repeat(val, n)] :
             val \in RowValues, n \in 0..MaxRows}
    \cup {[column |-> FunctionColumn(val, n), given |-> Repeat(val, n)] :
             val \in RowValues, n \in 0..MaxRows}

\* the state of a column: the values it was built from, its payload, the
\* transforms applied to it, and the result of the last materialize()
ColumnState(op, given, column, transforms, out) ==
    [op |-> op, given |-> given, column |-> column, transforms |-> transforms, out |-> out]

\* a column has been constructed
InitColumns ==
    /\ meta = [t \in __members__ |-> Unset]
    /\ \E built \in BuiltColumns :
           last = ColumnState("construct", built.given, built.column, <<>>, <<>>)

\* column.materialize()
Materialize ==
    /\ last' = [last EXCEPT !.op = "materialize", !.out = <<materialize(last.column)>>]
    /\ UNCHANGED meta

\* column.values = f(column.values)
Transform(f) ==
    /\ last.column.kind # "function"
    /\ Len(last.transforms) < MaxTransforms
    /\ last' = [last EXCEPT !.op = "transform", !.column = transform(last.column, f),
                            !.transforms = Append(last.transforms, f)]
    /\ UNCHANGED meta

NextColumns ==
    \/ Materialize
    \/ \E f \in Transforms : Transform(f)

SpecColumns == InitColumns /\ [][NextColumns]_vars

(***************************************************************************)
(* Properties                                                              *)
(***************************************************************************)
\* the call of the state is a successful op
Returned(call, op) == call.op = op /\ ~ call.result.raised

\* the call obtained the tag of a bare declaration that is not ARRAY: by
\* get_ossis_type of the bare name, or by a reference to the enum member
BareTagObtained(call) ==
    /\ call.op \in {"get_ossis_type", "member"}
    /\ ~ call.result.raised
    /\ call.arg.kind = "str"
    /\ call.arg.text \in __members__ \ {ARRAY}
    /\ call.result.type = call.arg.text

\* C1: a tag obtained for a bare non-ARRAY declaration has all four attributes
\* unset, both when it is obtained (whatever was parsed before) and after the
\* next call (whatever is parsed after).
C1_BareTagCarriesNoParameters ==
    [][ /\ BareTagObtained(last') => meta'[last'.result.type] = Unset
        /\ BareTagObtained(last) => meta'[last.result.type] = Unset ]_vars

\* C2: once get_ossis_type(d) has returned t, a later get_ossis_type of another
\* declaration of the same tag leaves the attributes of t, and the keyword
\* arguments t.parse casts with, as d declared them.
C2_ParametersFixedAtParseTime ==
    [][ ( /\ Returned(last, "get_ossis_type")
          /\ Returned(last', "get_ossis_type")
          /\ last'.arg # last.arg
          /\ last'.result.type = last.result.type )
        => /\ meta'[last.result.type] = Attributes(last.result)
           /\ parse_kwargs(last.result.type, meta') = Attributes(last.result) ]_vars

\* the parameterized forms DECIMAL(p,s), VARCHAR[n], VARBINARY[n] and ARRAY<ELEM>
ParameterizedDecls ==
    { DecimalDecl(MidParam, SmallParam), DecimalDecl(MAX_PRECISION, MidParam),
      SizedDecl(VARCHAR, SmallLength), SizedDecl(VARCHAR, LargeLength),
      SizedDecl(VARBINARY, SmallLength),
      ArrayDecl(INTEGER), ArrayDecl(VARCHAR), ArrayDecl(VARBINARY) }

\* C3: for an accepted declaration of a parameterized form, parsing the text
\* str() renders succeeds and gives the tag and attributes of the first parse.
C3_RoundTrip ==
    ( /\ last.op = "round_trip"
      /\ last.arg.kind = "str"
      /\ last.arg.text \in ParameterizedDecls )
    => /\ ~ last.again.raised
       /\ last.again.type = last.result.type
       /\ Attributes(last.again) = Attributes(last.result)

\* C4: from_name accepts DECIMAL(p,s) exactly when 0 <= s <= p <= 38, with tag
\* DECIMAL, precision p, scale s, no length and no element type; for any other
\* (p,s) it raises and returns nothing.
C4_DecimalAcceptedIffInRange ==
    \A p \in DecimalParams, s \in DecimalParams :
        (last.op = "from_name" /\ last.arg = StrArg(DecimalDecl(p, s)))
        => IF 0 <= s /\ s <= p /\ p <= 38
           THEN last.result = Return("member", DECIMAL, None, Some(p), Some(s), None, <<>>)
           ELSE /\ last.result.raised
                /\ last.result.error \in {ERR_INVALID_PRECISION, ERR_INVALID_SCALE, ERR_PRECISION_LT_SCALE}
                /\ last.result.type_kind = "none"

C4_Witness ==
    /\ last.op = "from_name"
    /\ last.arg = StrArg(DecimalDecl(MidParam, MAX_PRECISION))
    /\ last.result.raised

\* C5: parsing bare DOUBLE gives FLOAT64 and bare INTEGER gives INT64, each
\* with a deprecation notice.
C5_DoubleAndIntegerCanonicalize ==
    /\ (last.op = "from_name" /\ last.arg = StrArg(DOUBLE))
       => /\ ~ last.result.raised
          /\ last.result.type = FLOAT64
          /\ last.result.warnings # <<>>
    /\ (last.op = "from_name" /\ last.arg = StrArg(INTEGER))
       => /\ ~ last.result.raised
          /\ last.result.type = INT64
          /\ last.result.warnings # <<>>

\* the removed types as the model spells them, in upper, lower and mixed case
RemovedSpellings == {NUMERIC, STRUCT, LIST, BSON, Lower(NUMERIC), Lower(STRUCT), MixedCaseList}

C8_ZeroLengthRejected ==
    \A base \in {VARCHAR, VARBINARY} :
        (last.op = "from_name" /\ last.arg = StrArg(SizedDecl(base, 0)))
        => last.result.raised

\* the elements that are not a non-complex base tag: the complex tags, a
\* parameterized element, a nested array and unknown names
RejectedElements ==
    {ARRAY, STRUCT, JSONB, INTERVAL, SizedDecl(VARCHAR, SmallLength), ArrayDecl(INTEGER), BIT, INT}

\* C9: ARRAY<ELEM> is rejected whenever ELEM is not a non-complex base tag.
C9_ComplexElementRejected ==
    \A elem \in RejectedElements :
        (last.op = "from_name" /\ last.arg = StrArg(ArrayDecl(elem)))
        => last.result.raised

\* C10: ARRAY<E> is accepted with element type E for E among INTEGER, VARCHAR,
\* DOUBLE, BOOLEAN, TIMESTAMP and BLOB.
C10_ArrayOfTestedElementsAccepted ==
    \A elem \in {INTEGER, VARCHAR, DOUBLE, BOOLEAN_, TIMESTAMP, BLOB} :
        (last.op = "from_name" /\ last.arg = StrArg(ArrayDecl(elem)))
        => /\ ~ last.result.raised
           /\ last.result.type = ARRAY
           /\ last.result.element_type = Some(elem)

\* the inputs that stand for the missing type
SentinelArgs == {NoneArg, IntArg(0), StrArg(ZERO), StrArg(VARIANT), StrArg(MISSING)}

\* bare names that are no catalog tag, no deprecated alias and no removed type
UnknownBareNames == {BIT, INT, UINT, FLOAT, <<>>}

\* C11: from_name returns one and the same sentinel value for null, 0, "0",
\* "VARIANT" and "MISSING" (the value it returns for null), and raises the
\* unknown-type error for any other bare name that is no catalog tag, no
\* deprecated alias and no removed type.
C11_OneMissingSentinel ==
    /\ (last.op = "from_name" /\ last.arg \in SentinelArgs)
       => /\ ~ last.result.raised
          /\ last.result.type_kind = from_name_of(NoneArg).type_kind
          /\ last.result.type = from_name_of(NoneArg).type
          /\ Attributes(last.result) = Unset
    /\ (last.op = "from_name" /\ last.arg.kind = "str" /\ last.arg.text \in UnknownBareNames)
       => /\ last.result.raised
          /\ last.result.error = ERR_UNKNOWN_COLUMN_TYPE

\* C12: from_name on the lower-case or mixed-case spelling of a declaration
\* (bare, DECIMAL(p,s), VARCHAR[n], ARRAY<ELEM>) has the outcome of from_name
\* on its upper-case spelling: the same tag, parameters and notices, or the
\* same error.
C12_CaseInsensitive ==
    \A d \in CaseDecls :
        ( /\ last.op = "from_name"
          /\ last.arg.kind = "str"
          /\ last.arg.text \in {Lower(d), MixedCase(d)} )
        => last.result = from_name_of(StrArg(d))

C12_Witness ==
    /\ last.op = "from_name"
    /\ last.arg = StrArg(MixedCase(ArrayDecl(INTEGER)))
    /\ ~ last.result.raised
    /\ last.result.type = ARRAY
    /\ last.result.element_type = Some(INTEGER)

\* the signed and the unsigned integer type of a width
SignedType(w) == <<"I", "N", "T">> \o IntToStr(w)

UnsignedType(w) == <<"U">> \o SignedType(w)

IntegerRangeErrors ==
    { ERR_INT8_RANGE, ERR_UINT8_RANGE, ERR_INT16_RANGE, ERR_UINT16_RANGE,
      ERR_INT32_RANGE, ERR_UINT32_RANGE, ERR_INT64_RANGE, ERR_UINT64_RANGE }

\* the caster returned its integer argument, or raised a range error
ReturnedUnchanged(call) == call.result = CastReturn("int", call.arg.text, <<>>)

RaisedRangeError(call) == call.result.raised /\ call.result.error \in IntegerRangeErrors

\* C13: for w in {8,16,32,64} the signed caster returns an integer x unchanged
\* when -2^(w-1) <= x <= 2^(w-1)-1 and raises a range error otherwise; the
\* unsigned caster returns x unchanged when 0 <= x <= 2^w-1 and raises a range
\* error otherwise.
C13_IntegerRange ==
    \A w \in Widths :
        /\ (last.op = "parse_int" /\ last.type = SignedType(w) /\ last.arg.kind = "int")
           => IF ~ int_lt(last.arg.text, Neg(Pow2Table[w - 1])) /\ int_lt(last.arg.text, Pow2Table[w - 1])
              THEN ReturnedUnchanged(last)
              ELSE RaisedRangeError(last)
        /\ (last.op = "parse_int" /\ last.type = UnsignedType(w) /\ last.arg.kind = "int")
           => IF ~ IsNegative(last.arg.text) /\ int_lt(last.arg.text, Pow2Table[w])
              THEN ReturnedUnchanged(last)
              ELSE RaisedRangeError(last)

\* int8 rejects 128 and uint64 accepts 2^64 - 1
C13_Witness ==
    \/ /\ last.op = "parse_int"
       /\ last.type = INT8
       /\ last.arg = BigIntArg(<<"1", "2", "8">>)
       /\ last.result.raised
    \/ /\ last.op = "parse_int"
       /\ last.type = UINT64
       /\ last.arg = BigIntArg(Pred(Pow2Table[64]))
       /\ ~ last.result.raised

\* the spellings of true
TrueSpellings ==
    { <<"T", "R", "U", "E">>, <<"O", "N">>, <<"Y", "E", "S">>, <<"1">>,
      <<"1", ".", "0">>, <<"T">>, <<"Y">> }

\* C14: the boolean caster never raises, and returns true exactly when the
\* input (a text, bytes, or the text form of another value) in upper case is
\* one of TRUE, ON, YES, 1, 1.0, T, Y; it returns false for every other input.
C14_BooleanTrueSpellings ==
    last.op = "parse_boolean"
    => /\ ~ last.result.raised
       /\ last.result.value.kind = "bool"
       /\ (last.result.value.text = TRUE_REPR) <=> (Upper(last.arg.text) \in TrueSpellings)
       /\ last.result.value.text \in {TRUE_REPR, FALSE_REPR}

\* bytes in lower case give true; a padded spelling gives false
C14_Witness ==
    \/ /\ last.op = "parse_boolean"
       /\ last.arg = BytesArg(<<"y", "e", "s">>)
       /\ last.result.value.text = TRUE_REPR
    \/ /\ last.op = "parse_boolean"
       /\ last.arg = StrArg(<<" ", "T", "R", "U", "E">>)
       /\ last.result.value.text = FALSE_REPR

\* the input of the call is numeric-like: a text, bytes, an integer or a float
\* whose text is a numeric literal
NumericLike(call) ==
    /\ call.arg.kind \in {"str", "bytes", "int", "float"}
    /\ IsDecimalLiteral(Unsigned(strip(decimal_text(call.arg))))

\* the exact value of the numeric-like input of the call
ExactValue(call) == literal_value(strip(decimal_text(call.arg)))

PrecisionOf(call) == OrDefault(call.kwargs.precision, DEFAULT_PRECISION)

ScaleOf(call) == OrDefault(call.kwargs.scale, DEFAULT_SCALE)

\* min(scale, 28)
CappedScale(call) == IF ScaleOf(call) <= 28 THEN ScaleOf(call) ELSE 28

\* the exact value of the input rounded half-to-even to min(scale, 28)
\* fractional digits
HalfEven(call) == _rescale(ExactValue(call), 0 - CappedScale(call))

\* the rounded value needs more significant digits than the declared precision
NeedsMoreDigits(call) ==
    /\ ~ IsZero(ExactValue(call))
    /\ \/ Len(HalfEven(call).int) > PrecisionOf(call)
       \/ Len(ExactValue(call).int) + ExactValue(call).exp + CappedScale(call) > PrecisionOf(call)

\* C15: for a numeric-like input whose rounded value fits the declared
\* precision, the decimal caster returns the input rounded half-to-even to
\* min(scale, 28) fractional digits, with exactly that many fractional digits.
C15_DecimalHalfEven ==
    ( /\ last.op = "parse_decimal"
      /\ NumericLike(last)
      /\ PrecisionOf(last) >= 1
      /\ ~ NeedsMoreDigits(last) )
    => /\ last.result = DecimalResult(HalfEven(last))
       /\ last.result.value.num = <<0 - CappedScale(last)>>

\* a decimal without the zeros that end its coefficient
RECURSIVE Normalized(_)
Normalized(d) ==
    IF IsZero(d) THEN Dec(0, <<"0">>, 0)
    ELSE IF d.int[Len(d.int)] = "0" THEN Normalized(Dec(d.sign, Front(d.int), d.exp + 1))
    ELSE d

\* the decimal a caster returned
ReturnedDecimal(call) ==
    Dec(IF IsNegative(call.result.value.text) THEN 1 ELSE 0,
        Magnitude(call.result.value.text), call.result.value.num[1])

\* C16: for a numeric-like input whose value rounded at the declared scale
\* needs more significant digits than the declared precision, the decimal
\* caster does not raise and returns a value numerically equal to the input.
C16_DecimalFallbackKeepsValue ==
    ( /\ last.op = "parse_decimal"
      /\ NumericLike(last)
      /\ PrecisionOf(last) >= 1
      /\ NeedsMoreDigits(last) )
    => /\ ~ last.result.raised
       /\ Normalized(ReturnedDecimal(last)) = Normalized(ExactValue(last))

\* the text whose shape parse_iso examines: without its Z, without its offset
WithoutOffset(v) == IF "+" \in Range(v) THEN before_plus(v) ELSE v

Stripped(text) == WithoutOffset(strip_z(text))

\* parse_iso was called on a text that is no number and passes the length
\* checks made before the shapes are examined
ShapeExamined(call) ==
    /\ call.op = "parse_iso"
    /\ call.arg.kind \in {"str", "bytes"}
    /\ ~ AllDigits(call.arg.text)
    /\ 10 <= Len(call.arg.text) /\ Len(call.arg.text) <= 33
    /\ 10 <= Len(Stripped(call.arg.text)) /\ Len(Stripped(call.arg.text)) <= 28 + 5

\* what C17 says of a stripped text v of length >= 16 with "-" at 4 and 7
LongShapeResult(v) ==
    IF v[11] \in {"T", " "} /\ v[14] = ":"
    THEN IF Len(v) >= 19 /\ v[17] = ":" THEN make_datetime(SecondFields(v))
         ELSE IF Len(v) = 16 THEN make_datetime(MinuteFields(v))
         ELSE NoneResult
    ELSE NoneResult

IsLongShape(v) == Len(v) >= 16 /\ v[5] = "-" /\ v[8] = "-"

\* C17: for a text that, without its Z and its offset, has length >= 16 and
\* "-" at indexes 4 and 7, parse_iso returns None unless index 10 is "T" or a
\* space and index 13 is ":"; when both hold it parses YYYY-MM-DD HH:MM:SS if
\* the length is >= 19 and index 16 is ":", YYYY-MM-DD HH:MM if the length is
\* 16, and returns None otherwise.
C17_LongShapeSeparators ==
    (ShapeExamined(last) /\ IsLongShape(Stripped(last.arg.text)))
    => last.result = LongShapeResult(Stripped(last.arg.text))

\* C18: parse_iso never raises: it returns None for every input outside its
\* grammar, whatever its type, length, separators, fields or magnitude.
C18_ParseIsoNeverRaises ==
    last.op = "parse_iso" => ~ last.result.raised

\* C19: a text that ends in one "Z", and is no number without it, has the
\* result of the text without that "Z";
\* a text with a "+" is accepted only if the text before the first "+" has a
\* length in [10, 28].
C19_TrailingZAndOffset ==
    /\ ( /\ last.op = "parse_iso"
         /\ last.arg.kind = "str"
         /\ Len(last.arg.text) > 1
         /\ last.arg.text[Len(last.arg.text)] = "Z"
         /\ last.arg.text[Len(last.arg.text) - 1] # "Z"
         /\ ~ AllDigits(Front(last.arg.text)) )
       => last.result = parse_iso(StrArg(Front(last.arg.text)), FALSE)
    /\ ( /\ last.op = "parse_iso"
         /\ last.arg.kind = "str"
         /\ "+" \in Range(last.arg.text)
         /\ last.result.value.kind = "datetime" )
       => /\ 10 <= Len(before_plus(last.arg.text))
          /\ Len(before_plus(last.arg.text)) <= 28

\* the number of days since 1970-01-01 of a date
days_from_civil(year, month, day) ==
    LET y == IF month <= 2 THEN year - 1 ELSE year
        mp == IF month > 2 THEN month - 3 ELSE month + 9
        yoe == y % 400
    IN  (y \div 400) * 146097 + yoe * 365 + yoe \div 4 - yoe \div 100
        + (153 * mp + 2) \div 5 + day - 1 - 719468

\* the whole seconds of a number in text form: its sub-second part dropped
WholeSeconds(x) ==
    IF x.kind = "float"
    THEN Signed(IsNegative(x.text), SubSeq(Magnitude(x.text), 1, PointIndex(Magnitude(x.text)) - 1))
    ELSE Signed(IsNegative(x.text), Magnitude(x.text))

\* a text of digits, an integer or a finite float
IsEpochInput(x) ==
    \/ x.kind \in {"str", "bytes"} /\ Len(x.text) > 0 /\ AllDigits(x.text)
    \/ x.kind = "int"
    \/ x.kind = "float" /\ PointIndex(x.text) > 0

InTimestampRange(t) == ~ int_lt(t, MIN_TIMESTAMP) /\ ~ int_lt(MAX_TIMESTAMP, t)

\* the datetime is the given count of seconds since 1970-01-01 00:00:00
IsDatetimeOfEpoch(fields, t) ==
    /\ days_from_civil(fields[1], fields[2], fields[3]) = epoch_days(t)
    /\ fields[4] * 3600 + fields[5] * 60 + fields[6] = epoch_seconds(t)
    /\ valid_datetime(fields)

TimestampText == <<"1", "7", "1", "8", "5", "3", "0", "7", "5", "4">>

\* C20: parse_iso takes a text of digits, whatever its length, an integer and
\* a float as a count of seconds since the epoch (UTC), the sub-second part
\* dropped: within the years 1 to 9999 the result is the datetime of that
\* second. The TIMESTAMP caster gives 2024-06-16 09:39:14 for "1718530754".
C20_DigitsAreEpochSeconds ==
    /\ ( /\ last.op = "parse_iso"
         /\ IsEpochInput(last.arg)
         /\ InTimestampRange(WholeSeconds(last.arg)) )
       => /\ ~ last.result.raised
          /\ last.result.value.kind = "datetime"
          /\ IsDatetimeOfEpoch(last.result.value.num, WholeSeconds(last.arg))
    /\ ( /\ last.op = "parse"
         /\ last.type = TIMESTAMP
         /\ last.arg = StrArg(TimestampText) )
       => last.result = DatetimeResult(<<2024, 6, 16, 9, 39, 14>>)

\* the text of ten digits was taken as seconds, by parse_iso and by the caster
C20_Witness ==
    /\ last.op \in {"parse_iso", "parse"}
    /\ last.type \in {NULL, TIMESTAMP}
    /\ last.arg = StrArg(TimestampText)
    /\ last.result = DatetimeResult(<<2024, 6, 16, 9, 39, 14>>)

\* a caster of a temporal type was called on a value that is not None
TemporalCast(call) ==
    call.op = "parse" /\ call.type \in TemporalTypes /\ call.arg.kind # "none"

\* the part of a timestamp that a temporal type keeps
PartOfTimestamp(t, fields) ==
    CASE t = DATE -> CastReturn("date", <<>>, <<fields[1], fields[2], fields[3]>>)
      [] t = TIME -> CastReturn("time", <<>>, <<fields[4], fields[5], fields[6]>>)
      [] t = TIMESTAMP -> CastReturn("datetime", <<>>, fields)

IsValueError(out) == out.raised /\ out.error \in {ERR_INVALID_DATE, ERR_INVALID_TIMESTAMP}

\* what C21 says of a caster's outcome, given what parse_iso gave for the value;
\* an exception of parse_iso itself is neither of the two cases and passes through
CastOfParsed(t, parsed, out) ==
    IF parsed.raised THEN out = parsed
    ELSE IF parsed = NoneResult THEN IsValueError(out)
    ELSE out = PartOfTimestamp(t, parsed.value.num)

ExampleText == <<"2", "0", "2", "3", "-", "0", "1", "-", "0", "1", "T",
                 "0", "0", ":", "0", "0", ":", "0", "1">>

ResolvedMixed(call) ==
    call.op = "find_compatible_type" /\ Cardinality(Range(call.types)) > 1

FixedWidthIntegers == {INTEGER, INT8, UINT8, INT16, UINT16, INT32, UINT32, INT64, UINT64}

Floating == {DOUBLE, FLOAT16, FLOAT32, FLOAT64}

NumericTags == {BOOLEAN_, DECIMAL} \cup FixedWidthIntegers \cup Floating

\* boolean = 1, fixed-width integers = 2, floating = 3, decimal = 4
NumericRank(t) ==
    CASE t = BOOLEAN_ -> 1
      [] t \in FixedWidthIntegers -> 2
      [] t \in Floating -> 3
      [] t = DECIMAL -> 4

\* C22: for every list whose members are all numeric tags and not all the same
\* tag, find_compatible_type returns a member of the list whose rank is the
\* greatest rank in the list.
C22_NumericPromotion ==
    (ResolvedMixed(last) /\ Range(last.types) \subseteq NumericTags)
    => /\ last.result \in Range(last.types)
       /\ \A t \in Range(last.types) : NumericRank(t) <= NumericRank(last.result)

\* DECIMAL was returned for a list of a boolean, a float and a decimal
C22_Witness ==
    /\ last.op = "find_compatible_type"
    /\ last.types = <<BOOLEAN_, DECIMAL, FLOAT32>>
    /\ last.result = DECIMAL

\* the pairs of the promotion table and their results
PromotionPairs ==
    { <<INTEGER, DOUBLE, DOUBLE>>, <<DOUBLE, DECIMAL, DECIMAL>>,
      <<INTEGER, TIMESTAMP, VARCHAR>>, <<BLOB, INTEGER, BLOB>> }

\* C23: find_compatible_type gives the same result for [A, B] and [B, A] for
\* the pairs (INTEGER, DOUBLE), (DOUBLE, DECIMAL), (INTEGER, TIMESTAMP) and
\* (BLOB, INTEGER): DOUBLE, DECIMAL, VARCHAR and BLOB.
C23_PromotionPairs ==
    \A pair \in PromotionPairs :
        ( /\ last.op = "find_compatible_type"
          /\ last.types \in {<<pair[1], pair[2]>>, <<pair[2], pair[1]>>} )
        => last.result = pair[3]

BinaryFamily == {BLOB, VARBINARY}

\* all the same, all numeric, all temporal, all large objects, or drawn only
\* from the binary family, STRUCT, JSONB and text
OneCategory(tags) ==
    \/ Cardinality(tags) <= 1
    \/ tags \subseteq NumericTags
    \/ tags \subseteq {DATE, TIME, TIMESTAMP}
    \/ tags \subseteq BinaryFamily \cup {VARCHAR}
    \/ tags \subseteq BinaryFamily \cup {STRUCT, JSONB, VARCHAR}

Reordered(types, p) == [i \in DOMAIN types |-> types[p[i]]]

\* C27: find_compatible_type does not depend on the order of its input: every
\* permutation of a list gives the same tag.
C27_OrderIndependent ==
    (last.op = "find_compatible_type" /\ Len(last.types) > 0)
    => \A p \in Permutations(DOMAIN last.types) :
           find_compatible_type(Reordered(last.types, p), last.default) = last.result

\* C28: resolving pairwise gives the same tag as resolving at once: after
\* [A, B] is resolved, resolving the result with C gives the tag of [A, B, C].
C28_PairwiseIsAtOnce ==
    [][ ( /\ last.op = "find_compatible_type"
          /\ last'.op = "find_compatible_type"
          /\ Len(last.types) = 2 )
        => last'.result
           = find_compatible_type(Append(last.types, last'.types[2]), last.default) ]_vars

\* the errors of a failing get_ossis_type: empty or None input, unknown name,
\* removed type, sentinel spelling, DECIMAL parameters, ARRAY element
CatalogErrors ==
    { ERR_EMPTY, ERR_UNKNOWN_COLUMN_TYPE, ERR_DEPRECATED, ERR_UNKNOWN_TYPE,
      ERR_INVALID_PRECISION, ERR_INVALID_SCALE, ERR_PRECISION_LT_SCALE,
      ERR_INVALID_ELEMENT, ERR_UNKNOWN_ELEMENT }

\* C29: a get_ossis_type call that fails leaves the precision, scale, length
\* and element type attached to every type tag as they were before the call;
\* from_name never changes them, whether it succeeds or fails.
C29_FailureLeavesAttributes ==
    [][ /\ (last'.op = "get_ossis_type" /\ last'.result.raised) => meta' = meta
        /\ last'.op = "from_name" => meta' = meta ]_vars

\* a get_ossis_type call failed while attributes were attached to some tag
C29_Witness ==
    /\ last.op = "get_ossis_type"
    /\ last.result.raised
    /\ last.result.error \in CatalogErrors
    /\ \E t \in DOMAIN meta : meta[t] # Unset

\* from_name refused the declaration as an unknown type
RejectedAsUnknown(call) ==
    call.result.raised /\ call.result.error = ERR_UNKNOWN_COLUMN_TYPE

\* C30: a declaration is accepted as a parameterized type only if the whole
\* text matches the grammar: a valid DECIMAL(p,s), VARCHAR[n], VARBINARY[n],
\* BLOB[n] or ARRAY<ELEM> followed by extra characters is rejected as an
\* unknown type, never parsed as the valid form it starts with.
C30_WholeTextMustMatch ==
    ( /\ last.op = "from_name"
      /\ last.arg.kind = "str"
      /\ last.arg.text \in TrailingDecls )
    => RejectedAsUnknown(last)

\* materialize() was called on a column as it was constructed
MaterializedAsBuilt(call) == call.op = "materialize" /\ call.transforms = <<>>

RECURSIVE SumOf(_)
SumOf(s) == IF Len(s) = 0 THEN 0 ELSE SumOf(Front(s)) + s[Len(s)]

\* no two adjacent runs hold the same value
AdjacentRunsDiffer(column) ==
    \A i \in 1..(Len(column.values) - 1) : column.values[i] # column.values[i + 1]

\* the run lengths sum to the length of the input, one length for each run
RunLengthsSum(call) ==
    /\ SumOf(call.column.lengths) = Len(call.given)
    /\ Len(call.column.lengths) = Len(call.column.values)
    /\ \A i \in DOMAIN call.column.lengths : call.column.lengths[i] >= 1

OneToOne == {"double"}

====
